---- MODULE Spec2Model ----
(***************************************************************************)
(* AlgeLab identity and session backend.                                   *)
(*                                                                         *)
(* Two variants of one design are modelled side by side:                   *)
(*   - the asynchronous FastAPI variant (src/src/...): JWT service,        *)
(*     authentication middleware, auth and user endpoints, Supabase        *)
(*     "profiles" table;                                                   *)
(*   - the legacy Django variant (src/algelabApp/...): the OAuth callback  *)
(*     view and its User/Profile records.                                  *)
(*                                                                         *)
(* Time is counted in whole epoch seconds.  A request is handled in one    *)
(* step: the middleware prologue, the endpoint and the middleware epilogue *)
(* all run inside the same action, the way one request runs through        *)
(* AuthMiddleware.dispatch.                                                *)
(***************************************************************************)
EXTENDS Integers, Sequences, FiniteSets, TLC

VARIABLES
    now,            \* epoch seconds (time.time(), datetime.utcnow())
    tz,             \* local-time offset of the server from UTC, in seconds
    profiles,       \* the Supabase "profiles" table: a set of rows
    legacyUsers,    \* legacy variant: usernames that own a User + Profile record
    last,           \* the last HTTP exchange: request, request.state, response
    call,           \* the last direct call of a JWT helper and its result
    upserts,        \* the last two calls of create_or_get_user_from_github
    dbClient,       \* SupabaseClient._instance and the cache of get_db_client
    worker,         \* the event loop of one worker and the requests it holds
    boot,           \* start-up: environment, settings object, HTTP server
    browser,        \* one browser client: its cookie jar and its last request
    github,         \* GitHub's accounts and the sessions minted for them
    race            \* two callback requests in flight for one new identity

vars == <<now, tz, profiles, legacyUsers, last, call, upserts, dbClient,
          worker, boot, browser, github, race>>

\* Python's None
None == "None"

----------------------------------------------------------------------------
(* Settings (src/src/config/base.py) and constants                          *)

ACCESS_TOKEN_EXPIRE_MINUTES == 1400
COOKIE_MAX_AGE == 3600
COOKIE_SECURE == FALSE
COOKIE_HTTPONLY == TRUE
COOKIE_SAMESITE == "lax"
FRONTEND_URL == "http://localhost:5173"
JWT_TOKEN_COOKIE_NAME == "jwt_token"
SECRET_KEY == "SECRET_KEY"

\* "if payload['exp'] - current_time < 600" in AuthMiddleware.dispatch
EXPIRING_SOON_SECONDS == 600

\* starlette.responses.RedirectResponse(url, status_code=307): the status a
\* redirect gets when the caller passes none
REDIRECT_DEFAULT_STATUS == 307

\* timedelta(minutes=m) in seconds
Minutes(m) == m * 60

----------------------------------------------------------------------------
(* Bounds of the model                                                      *)

\* the clock starts here and runs for at most MaxElapsed seconds
Epoch == 1000000
MaxElapsed == 1

\* the server's local time is an hour behind UTC, on UTC, or an hour ahead
TzOffsets == {0 - 3600, 0, 3600}

\* subjects (profiles.user_id values) a token may name
Subjects == {"github_1", "github_2"}

\* seconds of lifetime left in the tokens clients present (negative: expired)
Remaining == {0 - 1, 599, 600, Minutes(ACCESS_TOKEN_EXPIRE_MINUTES)}

\* explicit lifetimes (seconds) handed to create_access_token in direct calls;
\* 0 stands for both None and timedelta(0), which "if expires_delta:" treats
\* alike
Lifetimes == {0, 1, 60, 600, 3600, Minutes(ACCESS_TOKEN_EXPIRE_MINUTES)}

----------------------------------------------------------------------------
(* Session tokens (src/src/auth/jwt.py)                                     *)

\* jwt.encode(payload, key, "HS256"): the compact token, kept as its payload,
\* the key that signed it and whether the signature bytes are still the ones
\* the signer produced.  exp and iat are written as epoch seconds; typ is
\* the token_type claim, which only the legacy variant's tokens carry.
JwtEncode(payload, key) ==
    [form |-> "jwt", sub |-> payload.sub, exp |-> payload.exp,
     iat |-> payload.iat, key |-> key, intact |-> TRUE,
     typ |-> IF "token_type" \in DOMAIN payload THEN payload.token_type
             ELSE None]

\* a client altering the signature bytes of a token
Tamper(token) == [token EXCEPT !.intact = FALSE]

\* a cookie or header value that is not a JWT at all
Garbage ==
    [form |-> "garbage", sub |-> None, exp |-> 0, iat |-> 0, key |-> None,
     intact |-> FALSE, typ |-> None]

\* no token: the cookie is not sent, the helper returned None
NoToken ==
    [form |-> None, sub |-> None, exp |-> 0, iat |-> 0, key |-> None,
     intact |-> FALSE, typ |-> None]

\* "if token:" / "if not token:"
Truthy(token) == token.form # None

\* create_access_token(subject, expires_delta) called at time t
create_access_token(subject, expires_delta, t) ==
    LET expire == IF expires_delta # 0
                  THEN t + expires_delta
                  ELSE t + Minutes(ACCESS_TOKEN_EXPIRE_MINUTES)
    IN  JwtEncode([sub |-> subject, exp |-> expire, iat |-> t], SECRET_KEY)

\* results of decode_token: the payload, or the HTTPException it raises
NoPayload == [sub |-> None, exp |-> 0, iat |-> 0]
Decoded(payload) ==
    [ok |-> TRUE, payload |-> payload, status |-> 200, detail |-> None]
Unauthorized(detail) ==
    [ok |-> FALSE, payload |-> NoPayload, status |-> 401, detail |-> detail]

\* datetime.fromtimestamp(exp): the naive LOCAL wall-clock reading of an epoch
\* time, on the scale on which datetime.utcnow() reads t
FromTimestamp(exp, offset) == exp + offset

\* decode_token reading the exp claim before it verifies the signature
decode_token_ExpBeforeSignature(token, t, offset) ==
    IF token.form # "jwt" THEN Unauthorized("Could not validate credentials")
    ELSE IF token.exp <= t THEN Unauthorized("Token expired")
    ELSE IF token.key # SECRET_KEY \/ ~token.intact
         THEN Unauthorized("Could not validate credentials")
    ELSE IF FromTimestamp(token.exp, offset) < t
         THEN Unauthorized("Authentication error")
    ELSE Decoded([sub |-> token.sub, exp |-> token.exp, iat |-> token.iat])

\* decode_token(token) called at time t on a server whose local time is
\* offset seconds from UTC
decode_token(token, t, offset) ==
    \* jwt.decode: structure and signature first, then the exp claim
    IF token.form # "jwt" THEN Unauthorized("Could not validate credentials")
    ELSE IF token.key # SECRET_KEY \/ ~token.intact
         THEN Unauthorized("Could not validate credentials")
    ELSE IF token.exp <= t THEN Unauthorized("Token expired")
    \* the re-check raises HTTPException("Token expired") inside the try
    \* block; "except Exception" catches it and raises "Authentication error"
    ELSE IF FromTimestamp(token.exp, offset) < t
         THEN Unauthorized("Authentication error")
    ELSE Decoded([sub |-> token.sub, exp |-> token.exp, iat |-> token.iat])

----------------------------------------------------------------------------
(* Requests                                                                 *)

\* the Authorization header: absent, or "<scheme> <token>"
NoAuth == [scheme |-> None, token |-> NoToken]
Bearer(token) == [scheme |-> "Bearer", token |-> token]
Basic(token) == [scheme |-> "Basic", token |-> token]

\* path.startswith(skip_path), on paths split into their segments
StartsWith(path, prefix) ==
    /\ Len(prefix) <= Len(path)
    /\ \A i \in 1..Len(prefix) : path[i] = prefix[i]

\* get_token_from_request looking at the Authorization header first
get_token_from_request_HeaderFirst(request) ==
    IF request.auth.scheme = "Bearer" THEN request.auth.token
    ELSE request.cookie

\* get_token_from_request(request)
get_token_from_request(request) ==
    LET token == request.cookie
    IN  IF ~Truthy(token) /\ request.auth.scheme # None
        THEN IF request.auth.scheme = "Bearer" THEN request.auth.token
             ELSE token
        ELSE token

\* oauth2_scheme = OAuth2PasswordBearer(tokenUrl=..., auto_error=False):
\* the parameter of a Bearer Authorization header, else None
oauth2_scheme(request) ==
    IF request.auth.scheme = "Bearer" THEN request.auth.token ELSE NoToken

\* what a resolver hands to the endpoint: the user, None, or an HTTPException
Resolved(user_id) ==
    [raised |-> FALSE, user_id |-> user_id, status |-> 200, detail |-> None]
Raised(status, detail) ==
    [raised |-> TRUE, user_id |-> None, status |-> status, detail |-> detail]

\* the token a resolver decodes: the Depends(oauth2_scheme) value, else the
\* one get_token_from_request finds
ResolverToken(request) ==
    LET token == oauth2_scheme(request)
    IN  IF ~Truthy(token) THEN get_token_from_request(request) ELSE token

\* get_current_user_optional(request, token)
get_current_user_optional(request, t, offset) ==
    LET token == ResolverToken(request)
    IN  IF ~Truthy(token) THEN Resolved(None)
        ELSE LET d == decode_token(token, t, offset)
             IN  IF d.ok THEN Resolved(d.payload.sub) ELSE Resolved(None)

\* get_current_user(request, token)
get_current_user(request, t, offset) ==
    LET token == ResolverToken(request)
    IN  IF ~Truthy(token) THEN Raised(401, "Not authenticated")
        ELSE LET d == decode_token(token, t, offset)
             IN  IF d.ok THEN Resolved(d.payload.sub)
                 ELSE Raised(d.status, d.detail)

----------------------------------------------------------------------------
(* Responses                                                                *)

\* response.set_cookie(key=JWT_TOKEN_COOKIE_NAME, value=..., max_age=...,
\* httponly=..., secure=..., samesite=..., path="/"): one Set-Cookie header
SetCookie(value, max_age, httponly, secure, samesite) ==
    [key |-> JWT_TOKEN_COOKIE_NAME, value |-> value, max_age |-> max_age,
     httponly |-> httponly, secure |-> secure, samesite |-> samesite,
     path |-> "/"]

\* the session cookie as the asynchronous variant sets it
SessionCookie(token) ==
    SetCookie(token, COOKIE_MAX_AGE, COOKIE_HTTPONLY, COOKIE_SECURE,
              COOKIE_SAMESITE)

\* response.delete_cookie(key, path, secure, httponly, samesite): a
\* Set-Cookie with an empty value and Max-Age=0
DeleteCookie ==
    SetCookie(NoToken, 0, COOKIE_HTTPONLY, COOKIE_SECURE, COOKIE_SAMESITE)

\* the jwt_token cookie a client holds after it processed the Set-Cookie
\* headers of a response in order, having held `held` before
ClientCookieAfter(held, cookies) ==
    IF cookies = <<>> THEN held
    ELSE LET c == cookies[Len(cookies)]
         IN  IF c.max_age <= 0 THEN NoToken ELSE c.value

\* Set-Cookie headers of the response that carry a session token
TokenCookies(response) ==
    { i \in 1..Len(response.cookies) :
        response.cookies[i].max_age > 0
        /\ response.cookies[i].value.form = "jwt" }

EmptyBody ==
    [error |-> None, detail |-> None, status_code |-> 0, message |-> None,
     valid |-> None, user_id |-> None, username |-> None,
     first_name |-> <<>>, last_name |-> <<>>, avatar_url |-> <<>>,
     login_url |-> None, expires_at |-> 0]

\* a JSON response with the given status and body
JsonResponse(status, body) ==
    [status |-> status, json |-> TRUE, body |-> body, cookies |-> <<>>,
     location |-> <<>>, www_authenticate |-> None, calls |-> <<>>]

\* a redirect to url
RedirectResponse(url, status) ==
    [status |-> status, json |-> FALSE, body |-> EmptyBody, cookies |-> <<>>,
     location |-> url, www_authenticate |-> None, calls |-> <<>>]

\* an uncaught exception of the legacy variant: the framework's own 500 page
ServerErrorPage ==
    [status |-> 500, json |-> FALSE, body |-> EmptyBody, cookies |-> <<>>,
     location |-> <<>>, www_authenticate |-> None, calls |-> <<>>]

\* error_code_map.get(exc.status_code, f"http_{exc.status_code}")
ErrorCode(status) ==
    CASE status = 401 -> "unauthorized"
      [] status = 403 -> "forbidden"
      [] status = 404 -> "not_found"
      [] status = 405 -> "method_not_allowed"
      [] status = 422 -> "validation_error"
      [] status = 429 -> "rate_limit_exceeded"
      [] OTHER -> "http_" \o ToString(status)

\* http_exception_handler(request, exc): the envelope of an HTTPException
http_exception_handler(status, detail, www_authenticate) ==
    [JsonResponse(status,
        [EmptyBody EXCEPT !.error = ErrorCode(status), !.detail = detail,
                          !.status_code = status])
     EXCEPT !.www_authenticate = www_authenticate]

\* FastAPI's own handler, which stays registered for the HTTPException class
\* of Starlette that routing raises: {"detail": exc.detail}
default_http_exception_handler(status, detail) ==
    JsonResponse(status, [EmptyBody EXCEPT !.detail = detail])

\* str(e) of an HTTPException
StrHTTPException(status, detail) == ToString(status) \o ": " \o detail

\* str(e) of the ValidationError UserInfo(username=None) raises
UserInfoValidationError == "1 validation error for UserInfo"

\* validation_exception_handler(request, exc): a RequestValidationError
validation_exception_handler ==
    JsonResponse(422,
        [EmptyBody EXCEPT !.error = "validation_error",
                          !.detail = "Input validation error",
                          !.status_code = 422])

\* the answer to an HTTPException raised by a resolver (its headers carry
\* WWW-Authenticate: Bearer)
ResolverError(r) == http_exception_handler(r.status, r.detail, "Bearer")

----------------------------------------------------------------------------
(* Authentication middleware (src/src/auth/middleware.py)                   *)

HealthPath == <<"health">>
RootPath == <<>>
GithubLoginPath == <<"api", "auth", "github">>
GithubCallbackPath == <<"api", "auth", "github", "callback">>
LogoutPath == <<"api", "auth", "logout">>
ValidateTokenPath == <<"api", "auth", "validate-token">>
UserPath == <<"api", "user">>
TokenPath == <<"api", "auth", "token">>
UnknownPath == <<"api", "nowhere">>
RefreshTokenPath == <<"api", "auth", "refresh-token">>

\* a middleware that bypasses no path
skip_paths_Empty == {}

skip_paths ==
    { <<"health">>, <<"api", "auth", "github">>,
      <<"api", "auth", "github", "callback">>, <<"swagger">>, <<"redoc">>,
      <<"docs">>, <<"openapi.json">> }

\* any(path.startswith(skip_path) for skip_path in skip_paths)
Skipped(path) == \E skip_path \in skip_paths : StartsWith(path, skip_path)

\* request.state with none of the middleware's attributes set
UnsetState ==
    [set |-> FALSE, user |-> None, authenticated |-> FALSE,
     token_expiring_soon |-> FALSE]

\* AuthMiddleware.dispatch reading the exp claim of the raw token for the
\* near-expiry flag, whether or not the token decodes
MiddlewareState_FlagWithoutDecode(request, t, offset) ==
    IF Skipped(request.path) THEN UnsetState
    ELSE LET token == get_token_from_request(request)
             d == decode_token(token, t, offset)
         IN  [set |-> TRUE,
              user |-> IF Truthy(token) /\ d.ok THEN d.payload.sub ELSE None,
              authenticated |-> Truthy(token) /\ d.ok,
              token_expiring_soon |->
                  (Truthy(token) /\ token.exp - t < EXPIRING_SOON_SECONDS)]

\* AuthMiddleware.dispatch up to call_next: the request.state it leaves
MiddlewareState(request, t, offset) ==
    IF Skipped(request.path) THEN UnsetState
    ELSE LET token == get_token_from_request(request)
             d == decode_token(token, t, offset)
         IN  IF Truthy(token) /\ d.ok
             THEN [set |-> TRUE, user |-> d.payload.sub,
                   authenticated |-> TRUE,
                   token_expiring_soon |->
                       (d.payload.exp - t < EXPIRING_SOON_SECONDS)]
             ELSE [set |-> TRUE, user |-> None, authenticated |-> FALSE,
                   token_expiring_soon |-> FALSE]

\* AuthMiddleware.dispatch refreshing the cookie whatever the status of the
\* response
MiddlewareResponse_AnyStatus(state, response, t) ==
    IF state.token_expiring_soon /\ state.authenticated
    THEN [response EXCEPT
             !.cookies = Append(@, SessionCookie(
                 create_access_token(state.user,
                     Minutes(ACCESS_TOKEN_EXPIRE_MINUTES), t)))]
    ELSE response

\* AuthMiddleware.dispatch after call_next: the auto-refresh of the cookie
MiddlewareResponse(state, response, t) ==
    IF /\ state.token_expiring_soon
       /\ state.authenticated
       /\ response.status < 400
    THEN LET new_token ==
                 create_access_token(state.user,
                     Minutes(ACCESS_TOKEN_EXPIRE_MINUTES), t)
         IN  [response EXCEPT
                 !.cookies = Append(@, SessionCookie(new_token))]
    ELSE response

\* AuthMiddleware.dispatch around an endpoint whose response is `response`
dispatch(request, response, t, offset) ==
    MiddlewareResponse(MiddlewareState(request, t, offset), response, t)

----------------------------------------------------------------------------
(* Database access client (src/src/db/client.py)                            *)

\* the result of a select that matched no row (Python None)
NoRow ==
    [user_id |-> None, github_username |-> None, first_name |-> <<>>,
     last_name |-> <<>>]

\* SupabaseClient.get_user(user_id): response.data[0], or None
get_user(db, user_id) ==
    IF \E r \in db : r.user_id = user_id
    THEN CHOOSE r \in db : r.user_id = user_id
    ELSE NoRow

\* SupabaseClient.get_user_by_github_username(github_username)
get_user_by_github_username(db, github_username) ==
    IF \E r \in db : r.github_username = github_username
    THEN CHOOSE r \in db : r.github_username = github_username
    ELSE NoRow

\* create_or_update_user inserting without looking for the row first
create_or_update_user_InsertOnly(db, user_id, user_data) ==
    LET row == [user_id |-> user_id,
                github_username |-> user_data.github_username,
                first_name |-> user_data.first_name,
                last_name |-> user_data.last_name]
    IN  [row |-> row, db |-> db \cup {row}]

\* create_or_update_user writing a whole row in its update branch: columns
\* that user_data does not name become NULL
create_or_update_user_ReplaceRow(db, user_id, user_data) ==
    LET existing_user == get_user(db, user_id)
        column(f) == IF f \in DOMAIN user_data THEN user_data[f]
                     ELSE NoRow[f]
        row == [user_id |-> user_id,
                github_username |-> column("github_username"),
                first_name |-> column("first_name"),
                last_name |-> column("last_name")]
    IN  [row |-> row, db |-> (db \ {existing_user}) \cup {row}]

\* SupabaseClient.create_or_update_user(user_id, user_data): the row that
\* results and the table after the write
create_or_update_user(db, user_id, user_data) ==
    LET existing_user == get_user(db, user_id)
        \* update(user_data) writes the columns user_data names and keeps
        \* the others; insert(user_data) leaves the others NULL
        column(f) == IF f \in DOMAIN user_data THEN user_data[f]
                     ELSE existing_user[f]
        row == [user_id |-> user_id,
                github_username |-> column("github_username"),
                first_name |-> column("first_name"),
                last_name |-> column("last_name")]
    IN  IF existing_user.user_id # None
        THEN [row |-> row, db |-> (db \ {existing_user}) \cup {row}]
        ELSE [row |-> row, db |-> db \cup {row}]

\* what the database service does during one create_or_update_user: it
\* answers, the lookup fails, the write fails, or the write returns no row
WriteOutcomes == {"ok", "lookup_error", "write_error", "zero_rows"}

\* column sets a caller may supply
UserDataChoices ==
    { [github_username |-> "ada", first_name |-> <<"Ada">>,
       last_name |-> <<"Lovelace">>],
      [first_name |-> <<"Grace">>],
      [github_username |-> "octocat"] }

\* The singleton.  `settings` tells whether create_client accepts the
\* configured URL and key ("unset" until the module has read them);
\* `instance` is SupabaseClient._instance: "none", "half" (allocated, its
\* _client still None) or "ready"; `cached` tells whether lru_cache holds a
\* result of get_db_client; `failed` whether a construction has raised; the
\* other fields describe the last call: its name, whether it raised, the
\* state of the instance it returned, and the row a query returned; for a
\* write also its arguments, what the database service did, the error
\* raised and the table before the call.
NoDbClient ==
    [settings |-> "unset", instance |-> "none", cached |-> FALSE,
     failed |-> FALSE, fn |-> "none", raised |-> FALSE, returned |-> "none",
     row |-> NoRow, user_id |-> None, user_data |-> <<>>, outcome |-> "ok",
     error |-> None, before |-> {}]

\* SupabaseClient._initialize_client(): create_client(url, key) succeeds or
\* raises, which becomes SupabaseClientError
_initialize_client(c) ==
    IF c.settings = "valid"
    THEN [c EXCEPT !.instance = "ready", !.raised = FALSE]
    ELSE [c EXCEPT !.raised = TRUE, !.failed = TRUE]

\* SupabaseClient.__new__(cls): the instance is stored in cls._instance
\* before it is initialized
SupabaseClient(c) ==
    IF c.instance = "none"
    THEN LET i == _initialize_client([c EXCEPT !.instance = "half"])
         IN  [i EXCEPT !.returned = IF i.raised THEN "none" ELSE i.instance]
    ELSE [c EXCEPT !.raised = FALSE, !.returned = c.instance]

\* get_db_client(): lru_cache keeps what SupabaseClient() returned, never an
\* exception
get_db_client(c) ==
    IF c.cached THEN [c EXCEPT !.raised = FALSE, !.returned = c.instance]
    ELSE LET r == SupabaseClient(c)
         IN  [r EXCEPT !.cached = ~r.raised]

\* SupabaseClient.client: initializes the connection when it is still None
client(c) ==
    IF c.instance = "half" THEN _initialize_client(c)
    ELSE [c EXCEPT !.raised = FALSE]

----------------------------------------------------------------------------
(* Settings loader and start-up (src/src/config, src/src/main.py)            *)

\* values of the ENVIRONMENT variable: the two modes get_settings knows and
\* one it does not
Environments == {"development", "production", "staging"}

\* the secrets of the settings: signing key, GitHub client id and secret,
\* and the URL the database client connects to
Secrets ==
    {"SECRET_KEY", "GITHUB_CLIENT_ID", "GITHUB_CLIENT_SECRET",
     "NEXT_PUBLIC_SUPABASE_URL"}

\* the state of a process before anything was loaded.  `unset` are the
\* secrets missing from the environment and the dotfile, `none` the fields
\* of the settings object whose value is None, `used` the fields that
\* request or database code has read
NoBoot ==
    [phase |-> "fresh", env |-> "development", unset |-> {},
     constructed |-> FALSE, none |-> {}, error |-> None, server |-> FALSE,
     used |-> {}]

\* class Settings(BaseSettings): every secret is declared Field(...)
Settings == Secrets

\* class DevSettings(Settings): SECRET_KEY stays Field(...), the GitHub and
\* database fields are redeclared Optional[str] = None
DevSettings == {"SECRET_KEY"}

\* class ProdSettings(Settings): redeclares none of the secrets
ProdSettings == Settings

\* cls(): pydantic raises ValidationError when a required field has no
\* value; a missing optional field is None
Construct(required, b) ==
    IF required \cap b.unset # {}
    THEN [b EXCEPT !.phase = "failed", !.error = "ValidationError"]
    ELSE [b EXCEPT !.phase = "settings", !.constructed = TRUE,
                   !.none = b.unset]

\* get_settings(): the settings class of the environment, constructed
get_settings(b) ==
    IF b.env = "production" THEN Construct(ProdSettings, b)
    ELSE IF b.env = "development" THEN Construct(DevSettings, b)
    ELSE [b EXCEPT !.phase = "failed", !.error = "ConfigurationError"]

----------------------------------------------------------------------------
(* GitHub OAuth client (src/src/auth/github.py)                             *)

\* GitHubUser.name: None, or a text given by its whitespace-separated words
\* (name.split()) and by whether it holds any whitespace
NoName == [text |-> FALSE, blanks |-> FALSE, words |-> <<>>]
Name(words) == [text |-> TRUE, blanks |-> Len(words) > 1, words |-> words]

\* the empty string, and a text of whitespace only: neither has a word
EmptyName == Name(<<>>)
BlankName == [text |-> TRUE, blanks |-> TRUE, words |-> <<>>]

\* "if github_user.name": None and "" are falsy, every other text is truthy
NameTruthy(name) == name.text /\ (name.blanks \/ name.words # <<>>)

\* f"github_{github_user.id}"
GithubUserId(id) == "github_" \o ToString(id)

\* what the provider answers to the code exchange and to the identity fetch
ExchangeOutcomes ==
    {"ok", "transport_error", "bad_json", "error_field", "no_access_token",
     "bad_shape"}
IdentityOutcomes == {"ok", "transport_error", "bad_json", "bad_shape"}

\* str(e) of the GitHubAuthError get_github_oauth_token raises, None when it
\* returns a GitHubOAuthResponse or fails with another exception
ExchangeError(outcome) ==
    CASE outcome \in {"transport_error", "bad_json"} ->
             "Failed to obtain GitHub token: request failed"
      [] outcome = "error_field" -> "The code passed is incorrect or expired."
      [] outcome = "no_access_token" -> "No access token in GitHub response"
      [] OTHER -> None

\* str(e) of the GitHubAuthError get_github_user raises, else None
IdentityError(outcome) ==
    CASE outcome \in {"transport_error", "bad_json"} ->
             "Failed to fetch GitHub user: request failed"
      [] OTHER -> None

\* create_or_get_user_from_github(github_user): the row, or the
\* HTTPException(500) every failure is turned into; db_up tells whether the
\* database service answers
create_or_get_user_from_github(db, github_user, db_up) ==
    LET existing_user == get_user_by_github_username(db, github_user.login)
        name == github_user.name
        user_data ==
            [github_username |-> github_user.login,
             first_name |-> IF NameTruthy(name) /\ name.words # <<>>
                            THEN <<Head(name.words)>> ELSE <<>>,
             last_name |-> IF NameTruthy(name) /\ Len(name.words) > 1
                           THEN Tail(name.words) ELSE <<>>]
        user_id == IF existing_user.user_id # None
                   THEN existing_user.user_id
                   ELSE GithubUserId(github_user.id)
        failure == [ok |-> FALSE, row |-> NoRow, db |-> db]
    IN  IF ~db_up THEN failure
        \* name.split()[0] of a whitespace-only name: IndexError
        ELSE IF NameTruthy(name) /\ name.words = <<>> THEN failure
        ELSE LET w == create_or_update_user(db, user_id, user_data)
             IN  [ok |-> TRUE, row |-> w.row, db |-> w.db]

----------------------------------------------------------------------------
(* Endpoints of the asynchronous variant (src/src/api, src/src/main.py)     *)

AuthErrorUrl(message) == <<FRONTEND_URL, "/auth-error?error=", message>>
SuccessUrl == <<FRONTEND_URL, "/anh-algelab">>

WithCalls(response, calls) == [response EXCEPT !.calls = calls]

\* github_callback(code, request): the response and the table it leaves.
\* env is what the outside world does during the request.
github_callback(request, env, db, t) ==
    LET github_error(message, calls) ==
            [resp |-> WithCalls(RedirectResponse(AuthErrorUrl(message), 302),
                                calls),
             db |-> db]
        generic(calls, db2) ==
            [resp |-> WithCalls(
                 RedirectResponse(AuthErrorUrl("Authentication+failed"), 302),
                 calls),
             db |-> db2]
        c1 == <<"github.access_token">>
        c2 == <<"github.access_token", "github.user">>
        c3 == <<"github.access_token", "github.user", "db.profiles">>
        u == create_or_get_user_from_github(db, env.github_user, env.db_up)
    IN  \* the required query parameter is missing: RequestValidationError
        IF request.code = None
        THEN [resp |-> validation_exception_handler, db |-> db]
        ELSE IF ExchangeError(env.exchange) # None
        THEN github_error(ExchangeError(env.exchange), c1)
        ELSE IF env.exchange # "ok" THEN generic(c1, db)
        ELSE IF IdentityError(env.identity) # None
        THEN github_error(IdentityError(env.identity), c2)
        ELSE IF env.identity # "ok" THEN generic(c2, db)
        ELSE IF ~u.ok THEN generic(c3, db)
        ELSE IF ~env.mint_ok THEN generic(c3, u.db)
        ELSE LET token == create_access_token(u.row.user_id,
                              Minutes(ACCESS_TOKEN_EXPIRE_MINUTES), t)
                 response == RedirectResponse(SuccessUrl,
                                              REDIRECT_DEFAULT_STATUS)
             IN  [resp |-> [response EXCEPT
                               !.cookies = <<SessionCookie(token)>>,
                               !.calls = c3],
                  db |-> u.db]

\* logout(response, current_user)
logout(request, t, offset) ==
    LET current_user == get_current_user(request, t, offset)
    IN  IF current_user.raised THEN ResolverError(current_user)
        ELSE [JsonResponse(200,
                 [EmptyBody EXCEPT !.message = "Successfully logged out"])
              EXCEPT !.cookies = <<DeleteCookie>>]

\* f"https://github.com/{user['github_username']}.png"
AvatarUrl(github_username) == <<"https://github.com/", github_username, ".png">>

\* get_user_info(current_user)
get_user_info(request, db, db_up, t, offset) ==
    LET current_user == get_current_user(request, t, offset)
        user == get_user(db, current_user.user_id)
        calls == <<"db.profiles">>
    IN  IF current_user.raised THEN ResolverError(current_user)
        ELSE IF ~db_up
        THEN WithCalls(http_exception_handler(500,
                 "Database error: Error fetching user", None), calls)
        \* the HTTPException(404) is raised inside the try block and caught
        \* by its "except Exception"
        ELSE IF user.user_id = None
        THEN WithCalls(http_exception_handler(500,
                 "Internal server error: "
                     \o StrHTTPException(404, "User not found"), None),
                 calls)
        \* user.get("github_username", "") is None for a NULL column, which
        \* UserInfo(username: str) rejects
        ELSE IF user.github_username = None
        THEN WithCalls(http_exception_handler(500,
                 "Internal server error: " \o UserInfoValidationError, None),
                 calls)
        ELSE WithCalls(JsonResponse(200,
                 [EmptyBody EXCEPT
                     !.user_id = current_user.user_id,
                     !.username = user.github_username,
                     !.first_name = user.first_name,
                     !.last_name = user.last_name,
                     !.avatar_url = AvatarUrl(user.github_username)]), calls)

\* validate_token(request)
validate_token(request, t, offset) ==
    LET token == get_token_from_request(request)
        d == decode_token(token, t, offset)
    IN  IF ~Truthy(token)
        THEN JsonResponse(401,
                 [EmptyBody EXCEPT !.valid = "false",
                                   !.error = "No token provided"])
        ELSE IF d.ok
        THEN JsonResponse(200,
                 [EmptyBody EXCEPT !.valid = "true",
                                   !.user_id = d.payload.sub])
        ELSE JsonResponse(401,
                 [EmptyBody EXCEPT !.valid = "false", !.error = d.detail])

\* get_token(request)
get_token(request, t, offset) ==
    LET token == get_token_from_request(request)
        d == decode_token(token, t, offset)
    IN  IF ~Truthy(token)
        THEN http_exception_handler(401, "No authentication token found",
                                    None)
        ELSE IF ~d.ok THEN http_exception_handler(d.status, d.detail, "Bearer")
        ELSE JsonResponse(200,
                 [EmptyBody EXCEPT !.user_id = d.payload.sub,
                                   !.expires_at = d.payload.exp])

\* refresh_token(request, response, current_user)
refresh_token(request, t, offset) ==
    LET current_user == get_current_user(request, t, offset)
        new_token == create_access_token(current_user.user_id,
                         Minutes(ACCESS_TOKEN_EXPIRE_MINUTES), t)
        payload == decode_token(new_token, t, offset)
    IN  IF current_user.raised THEN ResolverError(current_user)
        ELSE IF ~payload.ok
        THEN http_exception_handler(payload.status, payload.detail, "Bearer")
        ELSE [JsonResponse(200,
                 [EmptyBody EXCEPT
                     !.message = "Token refreshed successfully",
                     !.expires_at = payload.payload.exp])
              EXCEPT !.cookies = <<SessionCookie(new_token)>>]

\* a request for a path no route matches: routing raises Starlette's
\* HTTPException(404)
not_found == default_http_exception_handler(404, "Not Found")

\* github_login(): the provider's authorization URL
github_login ==
    JsonResponse(200,
        [EmptyBody EXCEPT
            !.login_url = "https://github.com/login/oauth/authorize"])

\* root(): the informational endpoint, which needs no authentication
root == JsonResponse(200, [EmptyBody EXCEPT !.message = "AlgeLab"])

\* health_check()
health_check == JsonResponse(200, [EmptyBody EXCEPT !.message = "healthy"])

----------------------------------------------------------------------------
(* Legacy variant (src/algelabApp/views.py, src/algelab/settings.py)        *)

\* SIMPLE_JWT['ACCESS_TOKEN_LIFETIME'] = timedelta(minutes=60)
LEGACY_ACCESS_TOKEN_MINUTES == 60
\* response.set_cookie('jwt_token', ..., max_age=3600, httponly=True, ...)
LEGACY_COOKIE_MAX_AGE == 3600
JWT_COOKIE_SECURE == FALSE
JWT_COOKIE_SAMESITE == "Lax"

\* create_jwt_token(user): str(RefreshToken.for_user(user).access_token)
create_jwt_token(username, t) ==
    JwtEncode([sub |-> username,
               exp |-> t + Minutes(LEGACY_ACCESS_TOKEN_MINUTES), iat |-> t,
               token_type |-> "access"],
              SECRET_KEY)

\* SIMPLE_JWT['REFRESH_TOKEN_LIFETIME'] = timedelta(days=1)
LEGACY_REFRESH_TOKEN_MINUTES == 1440

\* str(RefreshToken.for_user(user)): the refresh token, which no view hands
\* to a client
LegacyRefreshToken(username, t) ==
    JwtEncode([sub |-> username,
               exp |-> t + Minutes(LEGACY_REFRESH_TOKEN_MINUTES), iat |-> t,
               token_type |-> "refresh"],
              SECRET_KEY)

\* RefreshToken(token): the backend verifies signature and exp, then
\* verify() requires the token_type claim to be "refresh"; the text of the
\* TokenError it raises, None when it accepts the token
RefreshTokenError(token, t) ==
    IF token.form # "jwt" \/ token.key # SECRET_KEY \/ ~token.intact
       \/ token.exp <= t
    THEN "Token is invalid or expired"
    ELSE IF token.typ # "refresh" THEN "Token has wrong type"
    ELSE None

\* views.validate_token(request)
legacy_validate_token(request, t) ==
    LET token == request.cookie
    IN  IF ~Truthy(token)
        THEN JsonResponse(401,
                 [EmptyBody EXCEPT !.valid = "false",
                                   !.error = "No token provided"])
        ELSE IF RefreshTokenError(token, t) # None
        THEN JsonResponse(401,
                 [EmptyBody EXCEPT !.valid = "false",
                                   !.error = RefreshTokenError(token, t)])
        ELSE JsonResponse(200, [EmptyBody EXCEPT !.valid = "true"])

LegacyError(status, message) ==
    JsonResponse(status, [EmptyBody EXCEPT !.error = message])

\* views.github_callback(request): the response and the User/Profile records
\* it leaves
legacy_github_callback(request, env, users, t) ==
    LET c1 == <<"github.access_token">>
        c2 == <<"github.access_token", "github.user">>
        c3 == <<"github.access_token", "github.user", "db.user", "db.profile">>
        keep(response, calls) ==
            [resp |-> WithCalls(response, calls), users |-> users]
    IN  \* "if not code": the parameter is missing or empty
        IF request.code \in {None, ""}
        THEN keep(LegacyError(400, "No code received from GitHub"), <<>>)
        \* requests.post raising is not caught
        ELSE IF env.exchange = "transport_error"
        THEN keep(ServerErrorPage, c1)
        ELSE IF env.exchange = "bad_json"
        THEN keep(LegacyError(500, "Invalid response from GitHub"), c1)
        ELSE IF env.exchange \in {"error_field", "no_access_token"}
        THEN keep(LegacyError(400, "Failed to obtain access token"), c1)
        ELSE IF env.identity = "transport_error"
        THEN keep(ServerErrorPage, c2)
        ELSE IF env.identity = "bad_json"
        THEN keep(LegacyError(500, "Invalid user info response from GitHub"),
                  c2)
        \* user_data['login'] of an answer without a login: KeyError
        ELSE IF env.identity = "bad_shape" THEN keep(ServerErrorPage, c2)
        \* the ORM calls raising is not caught
        ELSE IF ~env.db_up THEN keep(ServerErrorPage, c3)
        ELSE LET jwt_token == create_jwt_token(env.github_user.login, t)
                 response == RedirectResponse(SuccessUrl, 302)
             IN  [resp |-> [response EXCEPT
                     !.cookies = <<SetCookie(jwt_token, LEGACY_COOKIE_MAX_AGE,
                                     TRUE, JWT_COOKIE_SECURE,
                                     JWT_COOKIE_SAMESITE)>>,
                     !.calls = c3],
                  users |-> users \cup {env.github_user.login}]

----------------------------------------------------------------------------
(* One worker process of the asynchronous variant: a single event-loop    *)
(* thread that runs the handlers as tasks                                  *)

\* requests one worker holds at a time
MaxInFlight == 2
TaskIds == 1..MaxInFlight

\* the outbound calls a handler makes, in order: requests.post to the token
\* URL, requests.get of the identity, the supabase queries of the upsert;
\* the supabase query of GET /user/; none for /health
OutboundCalls(kind) ==
    CASE kind = "github_callback" ->
             <<"github.access_token", "github.user", "db.profiles">>
      [] kind = "get_user_info" -> <<"db.profiles">>
      [] OTHER -> <<>>

\* how a handler waits for an outbound call: "blocking" keeps the event-loop
\* thread inside the call (requests.post(...), ....execute() are plain
\* synchronous calls inside "async def"), "await" would hand the thread back
OutboundMode(target) == "blocking"

NoTask == [kind |-> "none", pc |-> "absent", made |-> 0]

\* no request in flight, the event-loop thread idle (current = 0)
IdleWorker == [task |-> [i \in TaskIds |-> NoTask], current |-> 0]

----------------------------------------------------------------------------
(* The clients and the outside world                                        *)

\* a token the service signed that has r seconds left at time t
Issued(sub, r, t) ==
    JwtEncode([sub |-> sub, exp |-> t + r,
               iat |-> t + r - Minutes(ACCESS_TOKEN_EXPIRE_MINUTES)],
              SECRET_KEY)

\* the lifetime a token has when it is minted
FullLife == Minutes(ACCESS_TOKEN_EXPIRE_MINUTES)

\* tokens the service signed: one subject at every remaining lifetime,
\* another subject freshly minted
ValidTokens(t) ==
    { Issued("github_1", r, t) : r \in Remaining }
    \cup { Issued("github_2", FullLife, t) }

\* tokens with an altered signature, tokens signed with another secret, and
\* text that is no token
ForgedTokens(t) ==
    { Tamper(Issued("github_1", FullLife, t)),
      Tamper(Issued("github_1", 0 - 1, t)),
      [Issued("github_1", FullLife, t) EXCEPT !.key = "OTHER_KEY"],
      [Issued("github_1", 0 - 1, t) EXCEPT !.key = "OTHER_KEY"],
      Garbage }

CookieChoices(t) ==
    ValidTokens(t) \cup { Tamper(Issued("github_1", FullLife, t)), NoToken }

AuthChoices(t) ==
    { NoAuth, Basic(Garbage), Bearer(Issued("github_2", FullLife, t)),
      Bearer(Issued("github_1", 599, t)), Bearer(Issued("github_1", 0 - 1, t)) }

Requests(path, t) ==
    [path : {path}, cookie : CookieChoices(t), auth : AuthChoices(t),
     code : {None}]

Codes == {None, "", "code"}

CallbackRequests(path) ==
    [path : {path}, cookie : {NoToken}, auth : {NoAuth}, code : Codes]

\* a callback by a browser that still holds a session cookie, fresh or about
\* to expire
SessionCallbackRequests(path, t) ==
    [path : {path},
     cookie : {Issued("github_1", 599, t), Issued("github_1", FullLife, t)},
     auth : {NoAuth}, code : {"code"}]

\* seconds since the legacy callback set the cookie a client presents: just
\* set, and just past the token's lifetime
LegacyAges == {0, Minutes(LEGACY_ACCESS_TOKEN_MINUTES) + 1}

\* cookies a client of the legacy variant presents: none, the session token
\* the callback minted (fresh, expired, tampered), and a refresh token
LegacyCookieChoices(t) ==
    { create_jwt_token("octocat", t - age) : age \in LegacyAges }
    \cup { NoToken, Tamper(create_jwt_token("octocat", t)),
            LegacyRefreshToken("octocat", t) }

\* identities the provider may report: two accounts, one of which later takes
\* over the login of the other, and one whose display name is blank
GitHubUsers ==
    { [login |-> "octocat", id |-> 1, name |-> Name(<<"Ada", "Lovelace">>)],
      [login |-> "octocat", id |-> 1, name |-> BlankName],
      [login |-> "ada", id |-> 2, name |-> NoName],
      [login |-> "octocat", id |-> 2, name |-> NoName] }

\* display names an account may carry: none, "", whitespace only, one word,
\* two words, three words
DisplayNames ==
    { NoName, EmptyName, BlankName, Name(<<"Ada">>),
      Name(<<"Ada", "Lovelace">>), Name(<<"Ada", "King", "Lovelace">>) }

\* (login, id) pairs the provider may report
Identities ==
    { [login |-> "octocat", id |-> 1], [login |-> "ada", id |-> 2],
      [login |-> "octocat", id |-> 2] }

\* what the outside world does during one request
Envs ==
    [exchange : ExchangeOutcomes, identity : IdentityOutcomes,
     github_user : GitHubUsers \cup {[login |-> "octocat", id |-> 1, name |-> NoName]},
     db_up : BOOLEAN, mint_ok : BOOLEAN]

\* the world of a request that only reaches the database
QuietEnv(db_up) ==
    [exchange |-> "ok", identity |-> "ok",
     github_user |-> [login |-> "octocat", id |-> 1, name |-> NoName],
     db_up |-> db_up, mint_ok |-> TRUE]

\* only the outcomes of the steps a callback reaches matter: the later ones
\* are fixed once an earlier step fails
CallbackEnvs ==
    { e \in Envs :
        /\ e.exchange # "ok" =>
             e.identity = "ok" /\ e.db_up /\ e.mint_ok
             /\ e.github_user = QuietEnv(TRUE).github_user
        /\ e.identity # "ok" =>
             e.db_up /\ e.mint_ok /\ e.github_user = QuietEnv(TRUE).github_user
        /\ ~e.db_up => e.mint_ok }

\* tables the service may find when it starts: empty, or holding one account
\* that logged in before and one row whose GitHub username is NULL
InitialTables ==
    { {},
      { [user_id |-> "github_1", github_username |-> "octocat",
         first_name |-> <<>>, last_name |-> <<>>],
        [user_id |-> "github_2", github_username |-> None,
         first_name |-> <<>>, last_name |-> <<>>] } }

\* numeric ids of GitHub accounts and the logins they may hold; GitHub lets
\* an account change its login to any login no other account holds
GitHubIds == {1, 2}
Logins == {"octocat", "ada", "grace"}

\* GitHub's accounts when the service starts, and no session minted yet:
\* `login` is the login each id holds now, `issued` the (id, sub) pairs of
\* the session tokens the callback has minted
InitialGitHub ==
    [login |-> [id \in GitHubIds |-> IF id = 1 THEN "octocat" ELSE "ada"],
     issued |-> {}]

\* a browser session is followed for MaxSession seconds, a token that a
\* client kept for MaxLater seconds
MaxSession == 4200
MaxLater == 84001

\* pauses of an active browser between two requests: all shorter than the
\* 600-second refresh window
IdleSteps == {EXPIRING_SOON_SECONDS - 300, EXPIRING_SOON_SECONDS - 1}

\* pauses of a client that kept a token: until 600 seconds before the token
\* expires, and 601 seconds
LongWaits == {FullLife - EXPIRING_SOON_SECONDS, EXPIRING_SOON_SECONDS + 1}

\* a browser that holds no cookie and has sent nothing.  `cookie` is the
\* jwt_token cookie of its jar, set at `cookieSet` with Max-Age `maxAge`;
\* `kept` is a copy of the token of its login that the client keeps;
\* `lastRequest` the time of its last request
NoBrowser ==
    [cookie |-> NoToken, cookieSet |-> 0, maxAge |-> 0, kept |-> NoToken,
     loggedIn |-> FALSE, loggedOut |-> FALSE, lastRequest |-> 0]

\* the jwt_token cookie the browser sends at time t: the one in its jar,
\* unless its Max-Age has run out
JarCookie(b, t) ==
    IF Truthy(b.cookie) /\ t < b.cookieSet + b.maxAge THEN b.cookie
    ELSE NoToken

\* the browser after it sent a request at time t and processed the
\* Set-Cookie headers of the response: the last header for jwt_token wins,
\* Max-Age=0 deletes
BrowserAfter(b, response, t) ==
    LET sent == [b EXCEPT !.lastRequest = t, !.cookie = JarCookie(b, t)]
        n == Len(response.cookies)
    IN  IF n = 0 THEN sent
        ELSE IF response.cookies[n].max_age <= 0
        THEN [sent EXCEPT !.cookie = NoToken, !.cookieSet = 0, !.maxAge = 0]
        ELSE [sent EXCEPT !.cookie = response.cookies[n].value,
                          !.cookieSet = t,
                          !.maxAge = response.cookies[n].max_age]

\* the two callback requests of one GitHub identity that is new to the
\* service
RaceIds == {1, 2}
RaceUser == [login |-> "grace", id |-> 3, name |-> NoName]

\* a callback request between its steps: `pc` is "absent", "start" (identity
\* fetched), "looked" (get_user_by_github_username returned), "checked"
\* (get_user inside create_or_update_user returned) or "done"; user_id is
\* the id it will write, exists whether get_user found a row, outcome how
\* the request ended
NoRaceRequest ==
    [pc |-> "absent", user_id |-> None, exists |-> FALSE, outcome |-> None]

\* no callback in flight.  `rows` is the profiles table as a list, so that
\* it can hold two rows with the same columns; `unique` tells whether the
\* table's schema, which is not part of the repository, rejects a second
\* row with the same user_id; `workers` whether the two requests are in the
\* same worker process or in different ones
NoRace ==
    [rows |-> <<>>, unique |-> FALSE, workers |-> "same",
     request |-> [i \in RaceIds |-> NoRaceRequest]]

\* the rows of the list as the set the queries select from
RowSet(rows) == { rows[i] : i \in 1..Len(rows) }

\* inside one worker process a handler runs from its lookup to its write
\* without giving up the event-loop thread (its database calls are plain
\* synchronous calls); handlers of different processes interleave freely
MayStep(r, i) ==
    r.workers = "same"
    => \A j \in RaceIds \ {i} :
           r.request[j].pc \in {"absent", "start", "done"}

----------------------------------------------------------------------------
(* State machine                                                            *)

NoRequest == [path |-> <<>>, cookie |-> NoToken, auth |-> NoAuth, code |-> None]

\* the resolver dependency was not part of the endpoint
NotResolved ==
    [raised |-> FALSE, user_id |-> None, status |-> 0, detail |-> None]

NoExchange ==
    [kind |-> "none", at |-> 0, request |-> NoRequest, env |-> QuietEnv(TRUE),
     state |-> UnsetState, current_user |-> NotResolved,
     response |-> JsonResponse(0, EmptyBody)]

NoCall ==
    [fn |-> "none", at |-> 0, subject |-> None, expires_delta |-> 0,
     request |-> NoRequest, token |-> NoToken, decoded |-> Unauthorized(None)]

\* one exchange of the asynchronous variant: the endpoint's response goes
\* back through AuthMiddleware.dispatch
Exchange(kind, request, env, current_user, response) ==
    [kind |-> kind, at |-> now, request |-> request, env |-> env,
     state |-> MiddlewareState(request, now, tz),
     current_user |-> current_user,
     response |-> dispatch(request, response, now, tz)]

Init ==
    /\ now = Epoch
    /\ tz \in TzOffsets
    /\ profiles \in InitialTables
    /\ legacyUsers = {}
    /\ last = NoExchange
    /\ call = NoCall
    /\ upserts = <<>>
    /\ dbClient = NoDbClient
    /\ worker = IdleWorker
    /\ boot = NoBoot
    /\ browser = NoBrowser
    /\ github = InitialGitHub
    /\ race = NoRace

\* time passes
Tick ==
    /\ now < Epoch + MaxElapsed
    /\ now' = now + 1
    /\ UNCHANGED <<browser, github, race, upserts, dbClient, worker, boot, tz, profiles, legacyUsers, last, call>>

\* GET /health
Health ==
    \E request \in Requests(HealthPath, now) :
        /\ last' = Exchange("health", request, QuietEnv(TRUE), NotResolved,
                            health_check)
        /\ call' = NoCall
        /\ UNCHANGED <<browser, github, race, upserts, dbClient, worker, boot, now, tz, profiles, legacyUsers>>

\* GET /
Root ==
    \E request \in Requests(RootPath, now) :
        /\ last' = Exchange("root", request, QuietEnv(TRUE), NotResolved, root)
        /\ call' = NoCall
        /\ UNCHANGED <<browser, github, race, upserts, dbClient, worker, boot, now, tz, profiles, legacyUsers>>

\* GET /api/auth/github/callback
GithubCallback ==
    \E request \in CallbackRequests(GithubCallbackPath), env \in CallbackEnvs :
        LET r == github_callback(request, env, profiles, now)
        IN  /\ request.code = None => env = QuietEnv(TRUE)
            /\ last' = Exchange("github_callback", request, env, NotResolved,
                                r.resp)
            /\ profiles' = r.db
            /\ call' = NoCall
            /\ UNCHANGED <<browser, github, race, upserts, dbClient, worker, boot, now, tz, legacyUsers>>

\* GET /api/auth/github
GithubLogin ==
    \E request \in Requests(GithubLoginPath, now) :
        /\ last' = Exchange("github_login", request, QuietEnv(TRUE),
                            NotResolved, github_login)
        /\ call' = NoCall
        /\ UNCHANGED <<browser, github, race, now, tz, profiles, legacyUsers, upserts, dbClient,
                       worker, boot>>

\* GET /api/auth/github/callback by a browser that holds a session cookie
GithubCallbackWithSession ==
    \E request \in SessionCallbackRequests(GithubCallbackPath, now),
       db_up \in BOOLEAN :
        LET r == github_callback(request, QuietEnv(db_up), profiles, now)
        IN  /\ last' = Exchange("github_callback", request, QuietEnv(db_up),
                                NotResolved, r.resp)
            /\ profiles' = r.db
            /\ call' = NoCall
            /\ UNCHANGED <<browser, github, race, now, tz, legacyUsers, upserts, dbClient, worker,
                           boot>>

\* POST /api/auth/logout
Logout ==
    \E request \in Requests(LogoutPath, now) :
        /\ last' = Exchange("logout", request, QuietEnv(TRUE),
                            get_current_user(request, now, tz),
                            logout(request, now, tz))
        /\ call' = NoCall
        /\ UNCHANGED <<browser, github, race, upserts, dbClient, worker, boot, now, tz, profiles, legacyUsers>>

\* POST /api/auth/validate-token
ValidateToken ==
    \E request \in Requests(ValidateTokenPath, now) :
        /\ last' = Exchange("validate_token", request, QuietEnv(TRUE),
                            NotResolved, validate_token(request, now, tz))
        /\ call' = NoCall
        /\ UNCHANGED <<browser, github, race, upserts, dbClient, worker, boot, now, tz, profiles, legacyUsers>>

\* GET /api/auth/token
GetToken ==
    \E request \in Requests(TokenPath, now) :
        /\ last' = Exchange("get_token", request, QuietEnv(TRUE), NotResolved,
                            get_token(request, now, tz))
        /\ call' = NoCall
        /\ UNCHANGED <<browser, github, race, now, tz, profiles, legacyUsers, upserts, dbClient,
                       worker, boot>>

\* POST /api/auth/refresh-token.  The endpoint mints its token when it
\* runs; the middleware mints the one it appends after call_next returned,
\* in the same second or in the next
RefreshToken ==
    \E request \in Requests(RefreshTokenPath, now), later \in {0, 1} :
        LET state == MiddlewareState(request, now, tz)
            response == refresh_token(request, now, tz)
        IN  /\ last' = [kind |-> "refresh_token", at |-> now,
                        request |-> request, env |-> QuietEnv(TRUE),
                        state |-> state,
                        current_user |-> get_current_user(request, now, tz),
                        response |-> MiddlewareResponse(state, response,
                                                        now + later)]
            /\ call' = NoCall
            /\ UNCHANGED <<now, tz, profiles, legacyUsers, upserts, dbClient,
                           worker, boot, browser, github, race>>

\* GET of a path that has no route
UnknownRoute ==
    \E request \in Requests(UnknownPath, now) :
        /\ last' = Exchange("not_found", request, QuietEnv(TRUE), NotResolved,
                            not_found)
        /\ call' = NoCall
        /\ UNCHANGED <<browser, github, race, now, tz, profiles, legacyUsers, upserts, dbClient,
                       worker, boot>>

\* GET /api/user/
GetUserInfo ==
    \E request \in Requests(UserPath, now), db_up \in BOOLEAN :
        /\ last' = Exchange("get_user_info", request, QuietEnv(db_up),
                            get_current_user(request, now, tz),
                            get_user_info(request, profiles, db_up, now, tz))
        /\ call' = NoCall
        /\ UNCHANGED <<browser, github, race, upserts, dbClient, worker, boot, now, tz, profiles, legacyUsers>>

\* legacy variant: GET auth/github/callback/ (no AuthMiddleware in front)
LegacyGithubCallback ==
    \E request \in CallbackRequests(<<"auth", "github", "callback">>),
       env \in CallbackEnvs :
        LET r == legacy_github_callback(request, env, legacyUsers, now)
        IN  /\ request.code \in {None, ""} => env = QuietEnv(TRUE)
            /\ last' = [kind |-> "legacy_github_callback", at |-> now,
                        request |-> request, env |-> env,
                        state |-> UnsetState, current_user |-> NotResolved,
                        response |-> r.resp]
            /\ legacyUsers' = r.users
            /\ call' = NoCall
            /\ UNCHANGED <<browser, github, race, upserts, dbClient, worker, boot, now, tz, profiles>>

\* legacy variant: POST auth/validate-token/
LegacyValidateToken ==
    \E cookie \in LegacyCookieChoices(now) :
        LET request == [path |-> <<"auth", "validate-token">>,
                        cookie |-> cookie, auth |-> NoAuth, code |-> None]
        IN  /\ last' = [kind |-> "legacy_validate_token", at |-> now,
                        request |-> request, env |-> QuietEnv(TRUE),
                        state |-> UnsetState, current_user |-> NotResolved,
                        response |-> legacy_validate_token(request, now)]
            /\ call' = NoCall
            /\ UNCHANGED <<now, tz, profiles, legacyUsers, upserts, dbClient,
                           worker, boot, browser, github, race>>

\* an account changes its login on GitHub to one that nobody holds
RenameLogin ==
    \E id \in GitHubIds, login \in Logins :
        /\ \A other \in GitHubIds : github.login[other] # login
        /\ github' = [github EXCEPT !.login[id] = login]
        /\ UNCHANGED <<now, tz, profiles, legacyUsers, last, call, upserts,
                       dbClient, worker, boot, browser, race>>

\* GET /api/auth/github/callback for the account with numeric id `id`, with
\* GitHub and the database answering
LoginViaGitHub ==
    \E id \in GitHubIds :
        LET request == [path |-> GithubCallbackPath, cookie |-> NoToken,
                        auth |-> NoAuth, code |-> "code"]
            env == [QuietEnv(TRUE) EXCEPT
                       !.github_user = [login |-> github.login[id],
                                        id |-> id, name |-> NoName]]
            r == github_callback(request, env, profiles, now)
        IN  /\ last' = Exchange("github_callback", request, env, NotResolved,
                                r.resp)
            /\ profiles' = r.db
            /\ github' = [github EXCEPT !.issued = @ \cup
                   { [id |-> id, sub |-> r.resp.cookies[i].value.sub] :
                       i \in TokenCookies(r.resp) }]
            /\ call' = NoCall
            /\ UNCHANGED <<now, tz, legacyUsers, upserts, dbClient, worker,
                           boot, browser, race>>

\* the browser completes the OAuth callback and keeps the cookie it is sent
BrowserLogin ==
    /\ ~browser.loggedIn
    /\ LET request == [path |-> GithubCallbackPath, cookie |-> NoToken,
                       auth |-> NoAuth, code |-> "code"]
           r == github_callback(request, QuietEnv(TRUE), profiles, now)
           b == BrowserAfter(browser, r.resp, now)
       IN  /\ last' = Exchange("github_callback", request, QuietEnv(TRUE),
                               NotResolved, r.resp)
           /\ profiles' = r.db
           /\ browser' = [b EXCEPT !.loggedIn = TRUE, !.kept = b.cookie]
    /\ call' = NoCall
    /\ UNCHANGED <<now, tz, legacyUsers, upserts, dbClient, worker, boot,
                   github, race>>

\* the logged-in browser pauses for less than the refresh window after its
\* last request
BrowserIdle ==
    /\ browser.loggedIn
    /\ \E d \in IdleSteps :
        /\ now + d <= Epoch + MaxSession
        /\ now + d - browser.lastRequest < EXPIRING_SOON_SECONDS
        /\ now' = now + d
    /\ UNCHANGED <<tz, profiles, legacyUsers, last, call, upserts, dbClient,
                   worker, boot, browser, github, race>>

\* the logged-in browser requests GET / with the cookie of its jar
BrowserRequest ==
    /\ browser.loggedIn
    /\ LET request == [path |-> RootPath, cookie |-> JarCookie(browser, now),
                       auth |-> NoAuth, code |-> None]
           exchange == Exchange("root", request, QuietEnv(TRUE), NotResolved,
                                root)
       IN  /\ last' = exchange
           /\ browser' = BrowserAfter(browser, exchange.response, now)
    /\ call' = NoCall
    /\ UNCHANGED <<now, tz, profiles, legacyUsers, upserts, dbClient, worker,
                   boot, github, race>>

\* the logged-in browser posts /api/auth/logout with the cookie of its jar
BrowserLogout ==
    /\ browser.loggedIn
    /\ ~browser.loggedOut
    /\ LET request == [path |-> LogoutPath, cookie |-> JarCookie(browser, now),
                       auth |-> NoAuth, code |-> None]
           exchange == Exchange("logout", request, QuietEnv(TRUE),
                                get_current_user(request, now, tz),
                                logout(request, now, tz))
           b == BrowserAfter(browser, exchange.response, now)
       IN  /\ last' = exchange
           /\ browser' = [b EXCEPT
                              !.loggedOut = (exchange.response.status = 200)]
    /\ call' = NoCall
    /\ UNCHANGED <<now, tz, profiles, legacyUsers, upserts, dbClient, worker,
                   boot, github, race>>

\* time passes for a client that logged out and kept its token
TimePasses ==
    /\ browser.loggedOut
    /\ \E d \in LongWaits :
        /\ now + d <= Epoch + MaxLater
        /\ now' = now + d
    /\ UNCHANGED <<tz, profiles, legacyUsers, last, call, upserts, dbClient,
                   worker, boot, browser, github, race>>

\* after the logout a client presents the token it kept, as the cookie or
\* as a Bearer header, to GET /api/user/ and to decode_token
ReplayToken ==
    /\ browser.loggedOut
    /\ \E by \in {"cookie", "header"} :
        LET request == [path |-> UserPath,
                        cookie |-> IF by = "cookie" THEN browser.kept
                                   ELSE NoToken,
                        auth |-> IF by = "header" THEN Bearer(browser.kept)
                                 ELSE NoAuth,
                        code |-> None]
        IN  /\ last' = Exchange("get_user_info", request, QuietEnv(TRUE),
                            get_current_user(request, now, tz),
                            get_user_info(request, profiles, TRUE, now, tz))
            /\ call' = [fn |-> "decode_token", at |-> now, subject |-> None,
                        expires_delta |-> 0, request |-> NoRequest,
                        token |-> browser.kept,
                        decoded |-> decode_token(browser.kept, now, tz)]
    /\ UNCHANGED <<now, tz, profiles, legacyUsers, upserts, dbClient, worker,
                   boot, browser, github, race>>

\* two callback requests for the same new identity have fetched the
\* identity from GitHub
RaceStart ==
    /\ \A i \in RaceIds : race.request[i].pc = "absent"
    /\ \E unique \in BOOLEAN, workers \in {"same", "different"} :
           race' = [race EXCEPT
                       !.unique = unique, !.workers = workers,
                       !.request = [i \in RaceIds |->
                           [NoRaceRequest EXCEPT !.pc = "start"]]]
    /\ UNCHANGED <<now, tz, profiles, legacyUsers, last, call, upserts,
                   dbClient, worker, boot, browser, github>>

\* create_or_get_user_from_github: get_user_by_github_username(login)
RaceLookup ==
    \E i \in RaceIds :
        LET existing_user ==
                get_user_by_github_username(RowSet(race.rows), RaceUser.login)
        IN  /\ race.request[i].pc = "start"
            /\ MayStep(race, i)
            /\ race' = [race EXCEPT
                   !.request[i].pc = "looked",
                   !.request[i].user_id =
                       IF existing_user.user_id # None
                       THEN existing_user.user_id
                       ELSE GithubUserId(RaceUser.id)]
            /\ UNCHANGED <<now, tz, profiles, legacyUsers, last, call,
                           upserts, dbClient, worker, boot, browser, github>>

\* create_or_update_user: existing_user = self.get_user(user_id)
RaceCheck ==
    \E i \in RaceIds :
        /\ race.request[i].pc = "looked"
        /\ MayStep(race, i)
        /\ race' = [race EXCEPT
               !.request[i].pc = "checked",
               !.request[i].exists =
                   (get_user(RowSet(race.rows),
                             race.request[i].user_id).user_id # None)]
        /\ UNCHANGED <<now, tz, profiles, legacyUsers, last, call, upserts,
                       dbClient, worker, boot, browser, github>>

\* create_or_update_user: the update or the insert, and the end of the
\* callback.  An insert that the table rejects raises, which the callback
\* answers with the authentication-failed redirect; so does an update that
\* matches no row
RaceWrite ==
    \E i \in RaceIds :
        LET q == race.request[i]
            row == [user_id |-> q.user_id,
                    github_username |-> RaceUser.login,
                    first_name |-> <<>>, last_name |-> <<>>]
            present == \E k \in 1..Len(race.rows) :
                           race.rows[k].user_id = q.user_id
            rejected == IF q.exists THEN ~present
                        ELSE race.unique /\ present
        IN  /\ q.pc = "checked"
            /\ MayStep(race, i)
            /\ race' = [race EXCEPT
                   !.request[i].pc = "done",
                   !.request[i].outcome =
                       IF rejected THEN "auth_failed" ELSE "cookie",
                   !.rows = IF rejected THEN @
                            ELSE IF q.exists
                            THEN [k \in 1..Len(@) |->
                                     IF @[k].user_id = q.user_id THEN row
                                     ELSE @[k]]
                            ELSE Append(@, row)]
            /\ UNCHANGED <<now, tz, profiles, legacyUsers, last, call,
                           upserts, dbClient, worker, boot, browser, github>>

\* create_access_token(subject, expires_delta) and at once decode_token
CallCreateThenDecode ==
    \E subject \in Subjects, expires_delta \in Lifetimes :
        LET token == create_access_token(subject, expires_delta, now)
        IN  /\ call' = [fn |-> "create_access_token", at |-> now,
                        subject |-> subject, expires_delta |-> expires_delta,
                        request |-> NoRequest, token |-> token,
                        decoded |-> decode_token(token, now, tz)]
            /\ last' = NoExchange
            /\ UNCHANGED <<browser, github, race, upserts, dbClient, worker, boot, now, tz, profiles, legacyUsers>>

\* decode_token(token) on a token a client presents
CallDecodeToken ==
    \E token \in ValidTokens(now) \cup ForgedTokens(now) :
        /\ call' = [fn |-> "decode_token", at |-> now, subject |-> None,
                    expires_delta |-> 0, request |-> NoRequest,
                    token |-> token, decoded |-> decode_token(token, now, tz)]
        /\ last' = NoExchange
        /\ UNCHANGED <<browser, github, race, upserts, dbClient, worker, boot, now, tz, profiles, legacyUsers>>

\* get_token_from_request(request)
CallGetTokenFromRequest ==
    \E request \in Requests(RootPath, now) :
        /\ call' = [fn |-> "get_token_from_request", at |-> now,
                    subject |-> None, expires_delta |-> 0,
                    request |-> request,
                    token |-> get_token_from_request(request),
                    decoded |-> Unauthorized(None)]
        /\ last' = NoExchange
        /\ UNCHANGED <<browser, github, race, upserts, dbClient, worker, boot, now, tz, profiles, legacyUsers>>

\* create_or_get_user_from_github(github_user), called directly; the record
\* keeps the identity, whether the database answered, whether the call
\* returned, the row it returned and the size of the table afterwards
CallCreateOrGetUser ==
    \E identity \in Identities, name \in DisplayNames, db_up \in BOOLEAN :
        LET github_user == [login |-> identity.login, id |-> identity.id,
                            name |-> name]
            u == create_or_get_user_from_github(profiles, github_user, db_up)
            record == [github_user |-> github_user, db_up |-> db_up,
                       ok |-> u.ok, row |-> u.row,
                       size |-> Cardinality(u.db)]
        IN  /\ upserts' = IF Len(upserts) < 2 THEN Append(upserts, record)
                          ELSE <<upserts[2], record>>
            /\ profiles' = u.db
            /\ UNCHANGED <<browser, github, race, now, tz, legacyUsers, last, call, dbClient,
                           worker, boot>>

\* src/src/db/client.py is imported: settings = get_settings() gives the URL
\* and key that create_client will be handed
LoadDbSettings ==
    /\ dbClient.settings = "unset"
    /\ \E accepted \in {"valid", "invalid"} :
           dbClient' = [dbClient EXCEPT !.settings = accepted]
    /\ UNCHANGED <<browser, github, race, now, tz, profiles, legacyUsers, last, call, upserts,
                   worker, boot>>

\* SupabaseClient()
CallSupabaseClient ==
    /\ dbClient.settings # "unset"
    /\ dbClient' = [SupabaseClient(dbClient) EXCEPT
                       !.fn = "SupabaseClient", !.row = NoRow]
    /\ UNCHANGED <<browser, github, race, now, tz, profiles, legacyUsers, last, call, upserts,
                   worker, boot>>

\* get_db_client()
CallGetDbClient ==
    /\ dbClient.settings # "unset"
    /\ dbClient' = [get_db_client(dbClient) EXCEPT
                       !.fn = "get_db_client", !.row = NoRow]
    /\ UNCHANGED <<browser, github, race, now, tz, profiles, legacyUsers, last, call, upserts,
                   worker, boot>>

\* get_user(user_id) on the instance a constructor call handed out
CallGetUser ==
    /\ dbClient.instance # "none"
    /\ \E user_id \in Subjects :
           LET c == client(dbClient)
           IN  dbClient' = [c EXCEPT
                   !.fn = "get_user", !.returned = c.instance,
                   !.row = IF c.raised THEN NoRow
                           ELSE get_user(profiles, user_id)]
    /\ UNCHANGED <<browser, github, race, now, tz, profiles, legacyUsers, last, call, upserts,
                   worker, boot>>

\* create_or_update_user(user_id, user_data) on the instance a constructor
\* call handed out; every exception inside its try block, its own
\* SupabaseClientError for an empty answer included, leaves as
\* SupabaseClientError
CallCreateOrUpdateUser ==
    /\ dbClient.instance # "none"
    /\ \E user_id \in Subjects, user_data \in UserDataChoices,
          outcome \in WriteOutcomes :
           LET c == client(dbClient)
               w == create_or_update_user(profiles, user_id, user_data)
               ok == ~c.raised /\ outcome = "ok"
           IN  /\ dbClient' = [c EXCEPT
                      !.fn = "create_or_update_user",
                      !.returned = c.instance,
                      !.raised = ~ok,
                      !.error = IF ok THEN None ELSE "SupabaseClientError",
                      !.row = IF ok THEN w.row ELSE NoRow,
                      !.user_id = user_id, !.user_data = user_data,
                      !.outcome = outcome, !.before = profiles]
               /\ profiles' = IF ok THEN w.db ELSE profiles
    /\ UNCHANGED <<now, tz, legacyUsers, last, call, upserts, worker, boot,
                   browser, github, race>>

\* a request reaches the worker and becomes a task that is ready to run
AcceptRequest ==
    \E i \in TaskIds, kind \in {"github_callback", "get_user_info", "health"} :
        /\ worker.task[i].pc = "absent"
        /\ worker' = [worker EXCEPT
                         !.task[i] = [kind |-> kind, pc |-> "ready",
                                      made |-> 0]]
        /\ UNCHANGED <<browser, github, race, now, tz, profiles, legacyUsers, last, call, upserts,
                       dbClient, boot>>

\* the event loop, when its thread is free, runs a task that is ready
RunTask ==
    \E i \in TaskIds :
        /\ worker.current = 0
        /\ worker.task[i].pc = "ready"
        /\ worker' = [worker EXCEPT !.task[i].pc = "running",
                                    !.current = i]
        /\ UNCHANGED <<browser, github, race, now, tz, profiles, legacyUsers, last, call, upserts,
                       dbClient, boot>>

\* the running handler makes its next outbound call and waits for it
StartOutboundCall ==
    \E i \in TaskIds :
        LET t == worker.task[i]
            calls == OutboundCalls(t.kind)
        IN  /\ worker.current = i
            /\ t.pc = "running"
            /\ t.made < Len(calls)
            /\ worker' = [worker EXCEPT
                   !.task[i].pc = "outbound",
                   !.task[i].made = t.made + 1,
                   !.current =
                       IF OutboundMode(calls[t.made + 1]) = "blocking"
                       THEN i ELSE 0]
            /\ UNCHANGED <<browser, github, race, now, tz, profiles, legacyUsers, last, call,
                           upserts, dbClient, boot>>

\* the outbound call returns: a blocked handler goes on, a suspended one is
\* ready to be resumed
OutboundCallReturns ==
    \E i \in TaskIds :
        /\ worker.task[i].pc = "outbound"
        /\ worker' = [worker EXCEPT
               !.task[i].pc = IF worker.current = i THEN "running"
                              ELSE "ready"]
        /\ UNCHANGED <<browser, github, race, now, tz, profiles, legacyUsers, last, call, upserts,
                       dbClient, boot>>

\* the running handler has made all its calls and returns its response
CompleteRequest ==
    \E i \in TaskIds :
        /\ worker.current = i
        /\ worker.task[i].pc = "running"
        /\ worker.task[i].made = Len(OutboundCalls(worker.task[i].kind))
        /\ worker' = [worker EXCEPT !.task[i].pc = "done", !.current = 0]
        /\ UNCHANGED <<browser, github, race, now, tz, profiles, legacyUsers, last, call, upserts,
                       dbClient, boot>>

\* the process starts with some ENVIRONMENT and some secrets unset
LoadEnvironment ==
    /\ boot.phase = "fresh"
    /\ \E env \in Environments, unset \in SUBSET Secrets :
        boot' = [boot EXCEPT !.phase = "environ", !.env = env,
                             !.unset = unset]
    /\ UNCHANGED <<browser, github, race, now, tz, profiles, legacyUsers, last, call, upserts,
                   dbClient, worker>>

\* settings = get_settings(), run when the first module is imported
CallGetSettings ==
    /\ boot.phase = "environ"
    /\ boot' = get_settings(boot)
    /\ UNCHANGED <<browser, github, race, now, tz, profiles, legacyUsers, last, call, upserts,
                   dbClient, worker>>

\* db_client = get_db_client(), run when the GitHub client module is
\* imported: create_client reads the URL and raises when it is None
ImportDbClient ==
    /\ boot.phase = "settings"
    /\ boot' = IF "NEXT_PUBLIC_SUPABASE_URL" \in boot.none
               THEN [boot EXCEPT !.phase = "failed",
                                 !.error = "SupabaseClientError",
                                 !.used = @ \cup {"NEXT_PUBLIC_SUPABASE_URL"}]
               ELSE [boot EXCEPT !.phase = "imported",
                                 !.used = @ \cup {"NEXT_PUBLIC_SUPABASE_URL"}]
    /\ UNCHANGED <<browser, github, race, now, tz, profiles, legacyUsers, last, call, upserts,
                   dbClient, worker>>

\* uvicorn.run("src.main:app"): the HTTP server accepts requests
StartServer ==
    /\ boot.phase = "imported"
    /\ boot' = [boot EXCEPT !.phase = "serving", !.server = TRUE]
    /\ UNCHANGED <<browser, github, race, now, tz, profiles, legacyUsers, last, call, upserts,
                   dbClient, worker>>

\* a login request: get_github_auth_url reads the client id
ServeLogin ==
    /\ boot.phase = "serving"
    /\ boot' = [boot EXCEPT !.used = @ \cup {"GITHUB_CLIENT_ID"}]
    /\ UNCHANGED <<browser, github, race, now, tz, profiles, legacyUsers, last, call, upserts,
                   dbClient, worker>>

\* a callback request: get_github_oauth_token reads the client id and the
\* client secret
ServeCallback ==
    /\ boot.phase = "serving"
    /\ boot' = [boot EXCEPT !.used = @ \cup {"GITHUB_CLIENT_ID",
                                             "GITHUB_CLIENT_SECRET"}]
    /\ UNCHANGED <<browser, github, race, now, tz, profiles, legacyUsers, last, call, upserts,
                   dbClient, worker>>

\* the JWT helpers called directly
NextJwt ==
    \/ Tick
    \/ CallCreateThenDecode
    \/ CallDecodeToken
    \/ CallGetTokenFromRequest

\* the endpoints behind the authentication middleware
NextSession ==
    \/ Tick
    \/ Health
    \/ Root
    \/ Logout
    \/ ValidateToken
    \/ GetToken
    \/ UnknownRoute
    \/ GetUserInfo
    \/ RefreshToken

\* the OAuth callback of both variants
NextOAuth ==
    \/ Tick
    \/ GithubCallback
    \/ LegacyGithubCallback
    \/ LegacyValidateToken

\* the paths the authentication middleware bypasses
NextBypass ==
    \/ Tick
    \/ Health
    \/ GithubLogin
    \/ GithubCallback
    \/ GithubCallbackWithSession

\* the account upsert called directly
NextAccounts ==
    \/ CallCreateOrGetUser

\* the database client and its construction
NextDb ==
    \/ Tick
    \/ LoadDbSettings
    \/ CallSupabaseClient
    \/ CallGetDbClient
    \/ CallGetUser
    \/ CallCreateOrUpdateUser

\* the requests in flight in one worker
NextWorker ==
    \/ AcceptRequest
    \/ RunTask
    \/ StartOutboundCall
    \/ OutboundCallReturns
    \/ CompleteRequest

\* logins over time by accounts that rename
NextIdentity ==
    \/ RenameLogin
    \/ LoginViaGitHub

\* a browser that stays active after its login
NextSliding ==
    \/ BrowserLogin
    \/ BrowserIdle
    \/ BrowserRequest

\* a client that logs out and presents its old token again
NextRevocation ==
    \/ BrowserLogin
    \/ BrowserLogout
    \/ TimePasses
    \/ ReplayToken

\* two concurrent first logins of one identity
NextRace ==
    \/ Tick
    \/ RaceStart
    \/ RaceLookup
    \/ RaceCheck
    \/ RaceWrite

\* the start of a process
NextBoot ==
    \/ LoadEnvironment
    \/ CallGetSettings
    \/ ImportDbClient
    \/ StartServer
    \/ ServeLogin
    \/ ServeCallback

Next ==
    NextJwt \/ NextSession \/ NextOAuth \/ NextBypass \/ NextAccounts
    \/ NextDb \/ NextWorker \/ NextBoot \/ NextIdentity \/ NextSliding
    \/ NextRevocation \/ NextRace

\* The whole service.  Every operation overwrites the record of the last
\* exchange or call and reads, besides its inputs, only the clock, the
\* timezone and its own variant's table, so each component is examined under
\* the specification that runs its operations alone; each of their behaviours
\* is a behaviour of Spec.
Spec == Init /\ [][Next]_vars
SpecJwt == Init /\ [][NextJwt]_vars
SpecSession == Init /\ [][NextSession]_vars
SpecOAuth == Init /\ [][NextOAuth]_vars
SpecBypass == Init /\ [][NextBypass]_vars
SpecAccounts == Init /\ [][NextAccounts]_vars
SpecDb == Init /\ [][NextDb]_vars
SpecWorker == Init /\ [][NextWorker]_vars
SpecBoot == Init /\ [][NextBoot]_vars
SpecIdentity == Init /\ [][NextIdentity]_vars
SpecSliding == Init /\ [][NextSliding]_vars
SpecRevocation == Init /\ [][NextRevocation]_vars
SpecRace == Init /\ [][NextRace]_vars

----------------------------------------------------------------------------
(* Properties                                                               *)

\* the token verifies under the configured secret and algorithm
CorrectlySigned(token) ==
    token.form = "jwt" /\ token.key = SECRET_KEY /\ token.intact

\* the last exchange went through the asynchronous variant's middleware on
\* a path that is not bypassed
Guarded == last.kind \notin {"none", "legacy_github_callback",
                             "legacy_validate_token"}
           /\ ~Skipped(last.request.path)

\* C1: GET /user/ by an authenticated subject that has no row in the profiles
\* table answers 404 "User not found", never 500.
C1_MissingProfileIs404 ==
    ( /\ last.kind = "get_user_info"
      /\ ~last.current_user.raised
      /\ last.env.db_up
      /\ get_user(profiles, last.current_user.user_id).user_id = None )
    => /\ last.response.status = 404
       /\ last.response.body.detail = "User not found"

\* C2: after a successful POST /auth/logout the response that leaves the
\* server leaves the client without a jwt_token cookie, whatever lifetime the
\* token of the request had left: its last Set-Cookie is the deletion.
C2_LogoutClearsCookie ==
    (last.kind = "logout" /\ last.response.status = 200)
    => /\ last.response.cookies # <<>>
       /\ last.response.cookies[Len(last.response.cookies)] = DeleteCookie
       /\ ClientCookieAfter(last.request.cookie, last.response.cookies)
              = NoToken

\* C3: on a path that is not bypassed, a successful request whose valid token
\* has fewer than 600 seconds left gets a replacement jwt_token cookie that
\* expires later than the original; with 600 seconds or more left the
\* response carries no replacement cookie.
C3_SlidingRefresh ==
    LET token == get_token_from_request(last.request)
        left == token.exp - last.at
        fresh == TokenCookies(last.response)
    IN  (Guarded /\ CorrectlySigned(token) /\ left > 0)
        => /\ (left < EXPIRING_SOON_SECONDS /\ last.response.status < 400)
                => /\ fresh # {}
                   /\ \A i \in fresh :
                          last.response.cookies[i].value.exp > token.exp
           /\ left >= EXPIRING_SOON_SECONDS => fresh = {}

\* C4: create_access_token(U, L) with a positive lifetime L, decoded at once,
\* yields sub = U and exp = mint time + L; decode_token on a correctly signed
\* token whose exp is in the past fails with 401 "Token expired".
C4_TokenRoundTrip ==
    /\ (call.fn = "create_access_token" /\ call.expires_delta > 0)
       => /\ call.decoded.ok
          /\ call.decoded.payload.sub = call.subject
          /\ call.decoded.payload.exp = call.at + call.expires_delta
    /\ ( /\ call.fn = "decode_token"
         /\ CorrectlySigned(call.token)
         /\ call.token.exp < call.at )
       => /\ ~call.decoded.ok
          /\ call.decoded.status = 401
          /\ call.decoded.detail = "Token expired"

\* C5: decode_token on a token whose signature was altered or that was signed
\* with another secret fails with 401 "Could not validate credentials", not
\* with the expiry error, whatever the token's exp.
C5_BadSignatureRejected ==
    ( /\ call.fn = "decode_token"
      /\ call.token.form = "jwt"
      /\ (~call.token.intact \/ call.token.key # SECRET_KEY) )
    => /\ ~call.decoded.ok
       /\ call.decoded.status = 401
       /\ call.decoded.detail = "Could not validate credentials"
       /\ call.decoded.detail # "Token expired"

\* C5 witness: a tampered or foreign-key token that is also expired was
\* decoded and rejected
C5_Witness ==
    /\ call.fn = "decode_token"
    /\ call.token.form = "jwt"
    /\ (~call.token.intact \/ call.token.key # SECRET_KEY)
    /\ call.token.exp < call.at
    /\ ~call.decoded.ok

\* C6: get_token_from_request returns the cookie's token when the cookie is
\* present, also when a Bearer header carries another token; the Bearer
\* header's token when only that is present; nothing when neither is.
C6_CookieBeforeHeader ==
    call.fn = "get_token_from_request"
    => LET cookie == call.request.cookie
           auth == call.request.auth
       IN  /\ Truthy(cookie) => call.token = cookie
           /\ (~Truthy(cookie) /\ auth.scheme = "Bearer")
                => call.token = auth.token
           /\ (~Truthy(cookie) /\ auth.scheme # "Bearer")
                => call.token = NoToken

\* C6 witness: cookie and Bearer header carried different valid tokens and
\* the helper was called
C6_Witness ==
    /\ call.fn = "get_token_from_request"
    /\ CorrectlySigned(call.request.cookie)
    /\ call.request.auth.scheme = "Bearer"
    /\ CorrectlySigned(call.request.auth.token)
    /\ call.request.auth.token.sub # call.request.cookie.sub
    /\ call.token.sub = call.request.cookie.sub

\* C7: the resolvers authenticate the token the extraction helper selects, so
\* the subject they return is the one the middleware attached to
\* request.state; the required resolver raises 401 "Not authenticated" with no
\* token and propagates decode failures, the optional one returns absent.
C7_ResolversAgreeWithMiddleware ==
    LET token == get_token_from_request(last.request)
        optional == get_current_user_optional(last.request, last.at, tz)
    IN  last.kind \in {"logout", "get_user_info"}
        => /\ ~last.current_user.raised
                => last.current_user.user_id = last.state.user
           /\ last.current_user.raised => ~last.state.authenticated
           /\ ~optional.raised
           /\ optional.user_id = last.state.user
           /\ ~Truthy(token)
                => /\ last.current_user.raised
                   /\ last.current_user.status = 401
                   /\ last.current_user.detail = "Not authenticated"

\* both variants' callback exchanges
Callbacks == {"github_callback", "legacy_github_callback"}

\* the exchange, the identity fetch, the upsert and the mint all succeeded
CallbackSucceeded ==
    /\ last.kind \in Callbacks
    /\ last.request.code \notin {None, ""}
    /\ last.env.exchange = "ok"
    /\ last.env.identity = "ok"
    /\ last.env.db_up
    /\ last.env.mint_ok
    /\ ~(NameTruthy(last.env.github_user.name)
         /\ last.env.github_user.name.words = <<>>)

\* C8: the GitHub callback called without a code parameter answers 400 with
\* an explanatory error and makes no outbound call, in both variants.
C8_CallbackWithoutCode ==
    (last.kind \in Callbacks /\ last.request.code = None)
    => /\ last.response.status = 400
       /\ last.response.body.error # None
       /\ last.response.calls = <<>>

\* C9: a callback whose steps all succeed answers 302 to
\* <FRONTEND_URL>/anh-algelab and sets the jwt_token cookie with path=/ and
\* the settings' attributes; the token's sub is the upserted row's user_id.
C9_CallbackSuccessRedirect ==
    CallbackSucceeded
    => /\ last.response.status = 302
       /\ last.response.location = SuccessUrl
       /\ Len(last.response.cookies) = 1
       /\ last.response.cookies[1].key = JWT_TOKEN_COOKIE_NAME
       /\ last.response.cookies[1].path = "/"
       /\ last.kind = "github_callback"
            => /\ last.response.cookies[1]
                    = SessionCookie(last.response.cookies[1].value)
               /\ last.response.cookies[1].value.sub
                    = get_user_by_github_username(profiles,
                          last.env.github_user.login).user_id

\* C10: every failure of the callback flow is answered with a redirect to the
\* frontend error page with the error text in the query, never a raw JSON
\* error: a GitHub failure carries its message, any other the generic one;
\* no session cookie is set.
C10_CallbackFailureRedirect ==
    ( /\ last.kind \in Callbacks
      /\ last.request.code \notin {None, ""}
      /\ ~CallbackSucceeded )
    => LET github_message ==
               IF ExchangeError(last.env.exchange) # None
               THEN ExchangeError(last.env.exchange)
               ELSE IF last.env.exchange = "ok"
               THEN IdentityError(last.env.identity)
               ELSE None
       IN  /\ last.response.status \in {302, 303, 307}
           /\ ~last.response.json
           /\ last.response.cookies = <<>>
           /\ last.response.location
                = AuthErrorUrl(IF github_message # None THEN github_message
                               ELSE "Authentication+failed")

\* the profiles table holds no two rows with the same user_id
UniqueUserIds ==
    \A r1, r2 \in profiles : r1.user_id = r2.user_id => r1 = r2

\* C11: two consecutive successful calls of create_or_get_user_from_github
\* for the same GitHub login and id leave exactly one profile row for that
\* identity; the second call updates that row, adds none, and returns the
\* user_id the first call returned.
C11_CreateOrGetIdempotent ==
    ( /\ Len(upserts) = 2
      /\ upserts[1].ok /\ upserts[2].ok
      /\ upserts[1].github_user.login = upserts[2].github_user.login
      /\ upserts[1].github_user.id = upserts[2].github_user.id )
    => LET login == upserts[2].github_user.login
           user_id == upserts[1].row.user_id
       IN  /\ upserts[2].row.user_id = user_id
           /\ Cardinality({r \in profiles : r.github_username = login}) = 1
           /\ Cardinality({r \in profiles : r.user_id = user_id}) = 1
           /\ upserts[2].row \in profiles
           /\ upserts[2].size = upserts[1].size
           /\ UniqueUserIds

\* C11 witness: the same identity logged in twice with different display
\* names, and the second call changed the row the first one wrote
C11_Witness ==
    /\ Len(upserts) = 2
    /\ upserts[1].ok /\ upserts[2].ok
    /\ upserts[1].github_user.login = upserts[2].github_user.login
    /\ upserts[1].github_user.id = upserts[2].github_user.id
    /\ upserts[1].row # upserts[2].row
    /\ upserts[2].row \in profiles

\* C12: requests to /health and to the GitHub login and callback paths reach
\* their handler and succeed with no token present; for them the middleware
\* sets neither request.state.user nor request.state.authenticated and adds
\* no refreshed cookie to the response, also when a token is present.
C12_BypassedPaths ==
    last.kind \in {"health", "github_login", "github_callback"}
    => /\ ~last.state.set
       /\ last.state.user = None
       /\ ~last.state.authenticated
       /\ last.kind \in {"health", "github_login"}
            => /\ last.response.status = 200
               /\ last.response.cookies = <<>>
       /\ last.kind = "github_callback"
            => /\ last.response.status \notin {401, 403}
               /\ CallbackSucceeded => last.response.status < 400
               /\ Len(last.response.cookies)
                    = (IF last.response.location = SuccessUrl THEN 1 ELSE 0)

\* C12 witness: a successful callback by a browser whose valid session token
\* is about to expire, on a server whose clock agrees with UTC
C12_Witness ==
    /\ last.kind = "github_callback"
    /\ tz = 0
    /\ CorrectlySigned(last.request.cookie)
    /\ last.request.cookie.exp - last.at < EXPIRING_SOON_SECONDS
    /\ last.request.cookie.exp > last.at
    /\ last.response.status < 400
    /\ ~last.state.set

\* C13: GET /user/ by an authenticated subject whose profile row exists
\* answers 200 with username equal to the row's github_username, or "" when
\* the row has none, and with avatar_url https://github.com/<username>.png
\* when a GitHub username is present and absent otherwise.
C13_UserInfo ==
    LET user == get_user(profiles, last.current_user.user_id)
    IN  ( /\ last.kind = "get_user_info"
          /\ ~last.current_user.raised
          /\ last.env.db_up
          /\ user.user_id # None )
        => /\ last.response.status = 200
           /\ last.response.body.user_id = user.user_id
           /\ last.response.body.username
                = (IF user.github_username = None THEN ""
                   ELSE user.github_username)
           /\ last.response.body.avatar_url
                = (IF user.github_username \in {None, ""} THEN <<>>
                   ELSE AvatarUrl(user.github_username))

\* C14: a failing construction of the database client raises, and after a
\* failed construction every call of SupabaseClient() or get_db_client()
\* either raises again or returns a client whose connection is initialized,
\* never an instance whose connection is absent.
C14_NoHalfInitializedClient ==
    /\ ( /\ dbClient.fn \in {"SupabaseClient", "get_db_client"}
         /\ dbClient.settings = "invalid" )
       => dbClient.raised
    /\ ( /\ dbClient.fn \in {"SupabaseClient", "get_db_client"}
         /\ dbClient.failed )
       => dbClient.raised \/ dbClient.returned = "ready"

\* C15: POST /auth/validate-token never raises and answers exactly one of:
\* 401 {valid: false, error: "No token provided"} with no token; 401
\* {valid: false, error: <decode detail>} with an invalid or expired token;
\* 200 {valid: true, user_id: <sub>} with a valid token.
C15_ValidateTokenOutcomes ==
    LET token == get_token_from_request(last.request)
        valid == CorrectlySigned(token) /\ token.exp > last.at
        body == last.response.body
    IN  last.kind = "validate_token"
        => /\ body.detail = None
           /\ ~Truthy(token)
                => /\ last.response.status = 401
                   /\ body.valid = "false"
                   /\ body.error = "No token provided"
           /\ (Truthy(token) /\ ~valid)
                => /\ last.response.status = 401
                   /\ body.valid = "false"
                   /\ body.error = decode_token(token, last.at, tz).detail
                   /\ body.error # "No token provided"
           /\ valid
                => /\ last.response.status = 200
                   /\ body.valid = "true"
                   /\ body.user_id = token.sub

\* what may precede the text of an exception in a detail string
DetailPrefixes == {"", "Internal server error: ", "Database error: "}

\* C16: an unexpected, unclassified failure inside a request handler reaches
\* the caller as status 500 with a generic message: the body's detail does
\* not carry the text of the underlying exception.
C16_NoExceptionTextInBody ==
    LET user == get_user(profiles, last.current_user.user_id)
        text == IF user.user_id = None
                THEN StrHTTPException(404, "User not found")
                ELSE UserInfoValidationError
    IN  ( /\ last.kind = "get_user_info"
          /\ ~last.current_user.raised
          /\ last.env.db_up
          /\ (user.user_id = None \/ user.github_username = None) )
        => /\ last.response.status = 500
           /\ \A prefix \in DetailPrefixes :
                  last.response.body.detail # prefix \o text

\* C17: every error response of the API carries the envelope {error, detail,
\* status_code} with status_code equal to the HTTP status, and the headers of
\* the raised error; this holds for HTTP errors raised by handlers and by
\* routing and for the 401 answers of the token endpoints.
C17_UniformErrorEnvelope ==
    ( /\ last.kind \notin {"none", "legacy_github_callback"}
      /\ last.response.status >= 400 )
    => /\ last.response.json
       /\ last.response.body.error # None
       /\ last.response.body.detail # None
       /\ last.response.body.status_code = last.response.status
       /\ last.current_user.raised
            => last.response.www_authenticate = "Bearer"

\* C18: a single worker interleaves in-flight requests: while a callback
\* request waits for its outbound call to GitHub or to the database, another
\* request that has reached the worker can be started (and so complete)
\* before that call returns.
C18_RequestsInterleave ==
    \A i, j \in TaskIds :
        ( /\ worker.task[i].kind = "github_callback"
          /\ worker.task[i].pc = "outbound"
          /\ worker.task[j].pc = "ready" )
        => ENABLED RunTask

\* C19: create-or-get splits the display name on whitespace: the first word
\* becomes first_name, the remaining words last_name (absent for a one-word
\* name), both are absent without a display name; and for every display
\* name, the empty and the whitespace-only ones included, the call completes.
C19_NameSplitting ==
    (upserts # <<>> /\ upserts[Len(upserts)].db_up)
    => LET r == upserts[Len(upserts)]
           name == r.github_user.name
       IN  /\ r.ok
           /\ name.words # <<>>
                => /\ r.row.first_name = <<Head(name.words)>>
                   /\ r.row.last_name = Tail(name.words)
           /\ name.words = <<>>
                => /\ r.row.first_name = <<>>
                   /\ r.row.last_name = <<>>

\* errors that report a configuration that cannot be loaded: the domain's
\* ConfigurationError and the settings classes' ValidationError
ConfigurationErrors == {"ConfigurationError", "ValidationError"}

\* C20: in development or production mode, once settings construction has
\* been attempted with a secret (signing key, GitHub client id or secret,
\* database URL) unset, the process has stopped with a configuration error
\* raised by the construction: no settings object exists, the HTTP server
\* has not started, and no request or database client has read the value.
C20_SettingsFailFast ==
    \A v \in Secrets :
        (/\ boot.env \in {"development", "production"}
         /\ v \in boot.unset
         /\ boot.phase \notin {"fresh", "environ"})
        => /\ boot.phase = "failed"
           /\ boot.error \in ConfigurationErrors
           /\ ~boot.constructed
           /\ ~boot.server
           /\ boot.used = {}

\* C30: for every timezone offset of the server, decode_token accepts a
\* correctly signed token whose exp is later than the current epoch time and
\* rejects one whose exp is earlier with "Token expired".
C30_ExpiryRecheckAgreesWithExp ==
    ( /\ call.fn = "decode_token"
      /\ CorrectlySigned(call.token) )
    => /\ call.token.exp > call.at => call.decoded.ok
       /\ call.token.exp < call.at
            => /\ ~call.decoded.ok
               /\ call.decoded.detail = "Token expired"

\* C22: on a path that is not bypassed, whatever token the request carries,
\* the middleware hands the request to the endpoint with request.state
\* {user: sub, authenticated: true} when the token decodes and {user: None,
\* authenticated: false} otherwise; the near-expiry flag is set only for an
\* authenticated request; an endpoint that needs no authentication answers
\* as it does without a token.
C22_MiddlewareNeverFailsRequest ==
    LET token == get_token_from_request(last.request)
        d == decode_token(token, last.at, tz)
    IN  Guarded
        => /\ last.state.set
           /\ (Truthy(token) /\ d.ok)
                => /\ last.state.authenticated
                   /\ last.state.user = d.payload.sub
           /\ ~(Truthy(token) /\ d.ok)
                => /\ ~last.state.authenticated
                   /\ last.state.user = None
           /\ last.state.token_expiring_soon => last.state.authenticated
           /\ last.kind = "root" => last.response.status = 200
           /\ last.kind = "not_found" => last.response.status = 404

\* C22 witness: a request with a tampered cookie went through the middleware
\* to the informational endpoint, unauthenticated, and was answered
C22_Witness ==
    /\ last.kind = "root"
    /\ last.request.cookie.form = "jwt"
    /\ ~last.request.cookie.intact
    /\ last.state.set
    /\ ~last.state.authenticated
    /\ last.response.status = 200

\* C23: behind the middleware, a response carries a refreshed session cookie
\* only if the request was flagged near-expiry and authenticated and the
\* response status is below 400, and the refreshed token names the subject
\* of the token the middleware decoded; a response with status 400 or above,
\* or to a request whose token did not decode, carries no session cookie.
\* (The refresh endpoint sets a session cookie of its own and is left aside.)
C23_RefreshOnlyOnSuccess ==
    LET token == get_token_from_request(last.request)
        d == decode_token(token, last.at, tz)
        fresh == TokenCookies(last.response)
    IN  (Guarded /\ last.kind # "refresh_token")
        => /\ fresh # {}
                => /\ last.state.token_expiring_soon
                   /\ last.state.authenticated
                   /\ last.response.status < 400
                   /\ \A i \in fresh :
                          last.response.cookies[i].value.sub = token.sub
           /\ (last.response.status >= 400 \/ ~(Truthy(token) /\ d.ok))
                => fresh = {}

\* C23 witness: a near-expiry token was refreshed on a successful response,
\* and the request carried a Bearer token of another subject as well
C23_Witness ==
    /\ Guarded
    /\ last.kind = "root"
    /\ last.state.token_expiring_soon
    /\ last.response.status = 200
    /\ TokenCookies(last.response) # {}
    /\ last.request.auth.scheme = "Bearer"
    /\ last.request.auth.token.sub # last.request.cookie.sub

\* C25: POST /auth/refresh-token by an authenticated user answers 200 and
\* leaves the client with a jwt_token cookie whose token names the current
\* subject and whose exp is the expires_at of the body and is not earlier
\* than the exp of the token that authenticated the request; an
\* unauthenticated request gets 401 and no cookie.
C25_RefreshTokenEndpoint ==
    LET held == ClientCookieAfter(last.request.cookie, last.response.cookies)
    IN  last.kind = "refresh_token"
        => /\ ~last.current_user.raised
                => /\ last.response.status = 200
                   /\ last.response.cookies # <<>>
                   /\ held.form = "jwt"
                   /\ held.sub = last.current_user.user_id
                   /\ last.response.body.expires_at = held.exp
                   /\ held.exp >= ResolverToken(last.request).exp
           /\ last.current_user.raised
                => /\ last.response.status = 401
                   /\ last.response.cookies = <<>>

\* columns of a profiles row other than its key
DataColumns == {"github_username", "first_name", "last_name"}

\* C24: create_or_update_user on a user_id that has a row rewrites the
\* supplied columns of that row and leaves its user_id and its other columns
\* as they were; on a user_id without a row it inserts one row with that
\* user_id; it returns the resulting row and touches no other row; when the
\* lookup or the write fails or the write returns no row, it raises the
\* client's own database error, returns no row and leaves the table alone.
C24_CreateOrUpdateUser ==
    LET old == get_user(dbClient.before, dbClient.user_id)
        row == dbClient.row
    IN  dbClient.fn = "create_or_update_user"
        => /\ ~dbClient.raised
                => /\ row.user_id = dbClient.user_id
                   /\ row \in profiles
                   /\ \A f \in DOMAIN dbClient.user_data :
                          row[f] = dbClient.user_data[f]
                   /\ old.user_id # None
                        => /\ \A f \in DataColumns \ DOMAIN dbClient.user_data :
                                  row[f] = old[f]
                           /\ profiles = (dbClient.before \ {old}) \cup {row}
                   /\ old.user_id = None
                        => profiles = dbClient.before \cup {row}
                   /\ Cardinality({ r \in profiles :
                                      r.user_id = dbClient.user_id }) = 1
           /\ (dbClient.outcome # "ok" \/ dbClient.raised)
                => /\ dbClient.raised
                   /\ dbClient.error = "SupabaseClientError"
                   /\ row = NoRow
                   /\ profiles = dbClient.before

\* C24 witness: a call that supplied one column updated a row that had a
\* GitHub username, and the username is still there
C24_Witness ==
    /\ dbClient.fn = "create_or_update_user"
    /\ ~dbClient.raised
    /\ DOMAIN dbClient.user_data = {"first_name"}
    /\ get_user(dbClient.before, dbClient.user_id).github_username = "octocat"
    /\ dbClient.row.github_username = "octocat"
    /\ dbClient.row.first_name = <<"Grace">>

\* C26: the legacy validate-token endpoint answers 200 valid: true for the
\* unexpired session token the legacy callback mints and sets as the
\* jwt_token cookie, and 401 valid: false for an absent, expired or tampered
\* token.
C26_LegacyValidateToken ==
    LET token == last.request.cookie
    IN  last.kind = "legacy_validate_token"
        => /\ ( /\ CorrectlySigned(token)
                /\ token.typ = "access"
                /\ token.exp > last.at )
                => /\ last.response.status = 200
                   /\ last.response.body.valid = "true"
           /\ (~CorrectlySigned(token) \/ token.exp <= last.at)
                => /\ last.response.status = 401
                   /\ last.response.body.valid = "false"

\* C27: whatever logins the GitHub accounts have held and released, every
\* session token the callback minted for the account with numeric id N has
\* the subject of the local account of N, and no subject was issued to two
\* different numeric ids.
C27_IdentityBinding ==
    /\ \A e \in github.issued : e.sub = GithubUserId(e.id)
    /\ \A e1, e2 \in github.issued : e1.sub = e2.sub => e1.id = e2.id

\* C21: a token that was valid before a successful logout is accepted, when
\* a client presents it again as the cookie or as a Bearer header, by
\* decode_token and by the authenticated endpoint at every later time before
\* its exp; once its exp has passed it is rejected.
C21_NoServerSideRevocation ==
    ( /\ browser.loggedOut
      /\ last.kind = "get_user_info"
      /\ call.fn = "decode_token"
      /\ call.token = browser.kept )
    => /\ browser.kept.exp > last.at
            => /\ call.decoded.ok
               /\ ~last.current_user.raised
               /\ last.current_user.user_id = browser.kept.sub
               /\ last.response.status # 401
       /\ browser.kept.exp < last.at
            => /\ ~call.decoded.ok
               /\ last.response.status = 401

\* C29: a browser that logged in and has made its requests on a path that is
\* not bypassed at intervals shorter than 600 seconds holds, after each of
\* them, a jwt_token cookie that its jar has not dropped and that the
\* service accepts.
C29_SlidingSessionKeepsLogin ==
    ( /\ browser.loggedIn
      /\ ~browser.loggedOut
      /\ last.kind = "root"
      /\ browser.lastRequest = now )
    => /\ Truthy(JarCookie(browser, now))
       /\ last.state.authenticated
       /\ last.response.status = 200

\* C28: when two callback requests for the same identity, unknown before,
\* have both ended, in the same worker process or in different ones and
\* however their lookups and writes interleaved, the profiles table holds
\* exactly one row for that identity and both requests ended with a session
\* cookie.
C28_ConcurrentFirstLogins ==
    (\A i \in RaceIds : race.request[i].pc = "done")
    => /\ Cardinality({ k \in 1..Len(race.rows) :
                          race.rows[k].github_username = RaceUser.login }) = 1
       /\ \A i \in RaceIds : race.request[i].outcome = "cookie"

====
